---- MODULE Spec2Model ----
(***************************************************************************)
(* Model of backend/app/services/excel_data_service.py (ExcelDataService): *)
(* the keyword classifier, the field mapper, the measurement synthesizer   *)
(* and the row writer of add_data_to_excel and bulk_add_data.              *)
(*                                                                         *)
(* Text.  A Python str is a sequence of tokens, one token per code point.  *)
(* The source's Japanese text is written with ASCII tokens (legend below); *)
(* Latin letters are "lat_x", digits are themselves, " " is "sp", the      *)
(* ideographic space U+3000 is "f_sp", the full-width colon is "f_colon".  *)
(* Dictionary keys and sheet names are never taken apart by the code, so   *)
(* each is one romanised token: "taitoru" is the key U+30BF U+30A4 U+30C8  *)
(* U+30EB, "_katahaba" is the column name that starts with U+3000, and the *)
(* English alias keys keep their spelling.                                 *)
(*                                                                         *)
(* Token legend (token = code point):                                      *)
(*   xa=U+30A1  a=U+30A2  xi=U+30A3  i=U+30A4  u=U+30A6  xe=U+30A7 *)
(*   e=U+30A8  xo=U+30A9  o=U+30AA  ka=U+30AB  ga=U+30AC  ki=U+30AD *)
(*   gi=U+30AE  ku=U+30AF  gu=U+30B0  ke=U+30B1  ko=U+30B3  sa=U+30B5 *)
(*   za=U+30B6  shi=U+30B7  ji=U+30B8  su=U+30B9  zu=U+30BA  se=U+30BB *)
(*   so=U+30BD  zo=U+30BE  ta=U+30BF  da=U+30C0  chi=U+30C1  xtsu=U+30C3 *)
(*   tsu=U+30C4  de=U+30C7  to=U+30C8  do=U+30C9  ni=U+30CB  ne=U+30CD *)
(*   no=U+30CE  ha=U+30CF  ba=U+30D0  pa=U+30D1  hi=U+30D2  bi=U+30D3 *)
(*   pi=U+30D4  fu=U+30D5  bu=U+30D6  pu=U+30D7  be=U+30D9  pe=U+30DA *)
(*   bo=U+30DC  po=U+30DD  ma=U+30DE  mi=U+30DF  mu=U+30E0  me=U+30E1 *)
(*   xya=U+30E3  xyu=U+30E5  xyo=U+30E7  ra=U+30E9  ri=U+30EA  ru=U+30EB *)
(*   re=U+30EC  ro=U+30ED  wa=U+30EF  n=U+30F3  -=U+30FC  h_gi=U+304E *)
(*   h_tsu=U+3064  h_na=U+306A  h_ra=U+3089  h_wa=U+308F  k_ko=U+5B50  k_bou=U+5E3D *)
(*   k_gan=U+773C  k_kyou=U+93E1  k_kawa=U+9769  k_kutsu=U+9774  k_mugi=U+9EA6  k_naga=U+9577 *)
(*   k_sode=U+8896  k_sai=U+8CA1  k_fu=U+5E03  k_ki=U+7740  k_take=U+4E08  k_kata=U+80A9 *)
(*   k_haba=U+5E45  k_mi=U+8EAB  k_mata=U+80A1  k_ue=U+4E0A  k_shita=U+4E0B  h_mo=U+3082 *)
(*   k_suso=U+88FE  k_sou=U+7DCF  k_yaku=U+7D04  f_colon=U+FF1A  f_sp=U+3000  sp=U+0020 *)
(*   nl=U+000A  k_te=U+624B  k_sho=U+66F8  tab=U+0009  k_tsuki=U+4ED8 *)
(*   k_tate=U+7E26  k_yoko=U+6A2A  colon=U+003A  k_ban=U+756A  k_gou=U+53F7 *)
(*   k_fu_not=U+4E0D  k_mei=U+660E *)
(***************************************************************************)
EXTENDS Integers, Sequences, FiniteSets, TLC

----------------------------------------------------------------------------
\* Python values: None, str, int, and a non-empty list (a value openpyxl
\* cannot store in a cell).  One record shape for all of them.
None == [k |-> "none", s |-> <<>>, n |-> 0]
Str(t) == [k |-> "str", s |-> t, n |-> 0]
Num(m) == [k |-> "int", s |-> <<>>, n |-> m]
List == [k |-> "list", s |-> <<>>, n |-> 0]
EmptyStr == Str(<<>>)

\* bool(v)
Truthy(v) ==
  \/ v.k = "str" /\ v.s # <<>>
  \/ v.k = "int" /\ v.n # 0
  \/ v.k = "list"

\* a or b
Or(a, b) == IF Truthy(a) THEN a ELSE b

\* dict.get(key, default)
Get(data, key, default) == IF key \in DOMAIN data THEN data[key] ELSE default

\* d[key] = value
DictSet(d, key, value) == (key :> value) @@ d

EmptyDict == [x \in {} |-> None]

\* str.lower() on the Latin capitals
UpperCase == <<"lat_A", "lat_B", "lat_C", "lat_D", "lat_E", "lat_F", "lat_G",
               "lat_H", "lat_I", "lat_J", "lat_K", "lat_L", "lat_M", "lat_N",
               "lat_O", "lat_P", "lat_Q", "lat_R", "lat_S", "lat_T", "lat_U",
               "lat_V", "lat_W", "lat_X", "lat_Y", "lat_Z">>
LowerCase == <<"lat_a", "lat_b", "lat_c", "lat_d", "lat_e", "lat_f", "lat_g",
               "lat_h", "lat_i", "lat_j", "lat_k", "lat_l", "lat_m", "lat_n",
               "lat_o", "lat_p", "lat_q", "lat_r", "lat_s", "lat_t", "lat_u",
               "lat_v", "lat_w", "lat_x", "lat_y", "lat_z">>
LowerTok(c) ==
  IF \E j \in 1..Len(UpperCase) : UpperCase[j] = c
    THEN LowerCase[CHOOSE j \in 1..Len(UpperCase) : UpperCase[j] = c]
    ELSE c
Lower(t) == [j \in 1..Len(t) |-> LowerTok(t[j])]

\* the characters str.strip() removes
Whitespace == {"sp", "f_sp", "nl", "tab"}

\* str(value).strip() == ""
BlankAfterStrip(v) ==
  /\ v.k = "str"
  /\ \A j \in 1..Len(v.s) : v.s[j] \in Whitespace

\* str(n) for a non-negative int
RECURSIVE Digits(_)
Digit == <<"0", "1", "2", "3", "4", "5", "6", "7", "8", "9">>
Digits(m) ==
  IF m < 10 THEN <<Digit[m + 1]>>
  ELSE Digits(m \div 10) \o <<Digit[(m % 10) + 1]>>

\* f"{value}": the text an f-string puts for a value
Format(v) ==
  CASE v.k = "str" -> v.s
    [] v.k = "int" -> Digits(v.n)
    [] v.k = "none" -> <<"lat_N", "lat_o", "lat_n", "lat_e">>
    [] OTHER -> <<"list_repr">>

----------------------------------------------------------------------------
\* self.SHEET_HEADERS
SHEET_HEADERS ==
     "toppusu" :> <<
      "kategori", "kanri_bangou", "taitoru", "mojisuu", "fuzokuhin", "ranku", "komento",
      "sozai", "iro", "saizu", "kitake", "_katahaba", "mihaba", "sodetake",
      "konpou_saizu", "konpou_kigou", "bihin", "burando", "furii", "sode", "mono",
      "danjo", "saisun1", "rakku", "kingaku", "matagami", "matashita", "uesuto",
      "momohaba", "susohaba", "soutake", "hippu", "shiiresaki", "shiirebi", "genka">>
  @@ "pantsu" :> <<
      "kategori", "kanri_bangou", "taitoru", "mojisuu", "fuzokuhin", "ranku", "komento",
      "sozai", "iro", "saizu", "kitake", "_katahaba", "mihaba", "sodetake",
      "konpou_saizu", "konpou_kigou", "bihin", "burando", "furii", "sode", "mono",
      "danjo", "saisun1", "rakku", "kingaku", "matagami", "matashita", "uesuto",
      "momohaba", "susohaba", "soutake", "hippu", "shiiresaki", "shiirebi", "genka">>
  @@ "sukaato" :> <<
      "kategori", "kanri_bangou", "taitoru", "mojisuu", "fuzokuhin", "ranku", "komento",
      "sozai", "iro", "saizu", "kitake", "_katahaba", "mihaba", "sodetake",
      "konpou_saizu", "konpou_kigou", "bihin", "burando", "furii", "sode", "mono",
      "danjo", "saisun1", "rakku", "kingaku", "matagami", "matashita", "uesuto",
      "momohaba", "susohaba", "soutake", "hippu", "shiiresaki", "shiirebi", "genka">>
  @@ "wanpiisu" :> <<
      "kategori", "kanri_bangou", "taitoru", "mojisuu", "fuzokuhin", "ranku", "komento",
      "sozai", "iro", "saizu", "kitake", "_katahaba", "mihaba", "sodetake",
      "konpou_saizu", "konpou_kigou", "bihin", "burando", "furii", "sode", "mono",
      "danjo", "saisun1", "rakku", "kingaku", "matagami", "matashita", "uesuto",
      "momohaba", "susohaba", "soutake", "hippu", "shiiresaki", "shiirebi", "genka">>
  @@ "ooruinwan" :> <<
      "kategori", "kanri_bangou", "taitoru", "mojisuu", "fuzokuhin", "ranku", "komento",
      "sozai", "iro", "saizu", "kitake", "_katahaba", "mihaba", "sodetake",
      "konpou_saizu", "konpou_kigou", "bihin", "burando", "furii", "sode", "mono",
      "danjo", "saisun1", "rakku", "kingaku", "matagami", "matashita", "uesuto",
      "momohaba", "susohaba", "soutake", "hippu", "shiiresaki", "shiirebi", "genka">>
  @@ "sukaatosuutsu" :> <<
      "kategori", "kanri_bangou", "taitoru", "mojisuu", "fuzokuhin", "ranku", "komento",
      "sozai", "iro", "saizu", "kitake", "_katahaba", "mihaba", "sodetake",
      "konpou_saizu", "konpou_kigou", "bihin", "burando", "furii", "sode", "mono",
      "danjo", "saisun1", "rakku", "kingaku", "matagami", "matashita", "uesuto",
      "momohaba", "susohaba", "soutake", "hippu", "shiiresaki", "shiirebi", "genka">>
  @@ "pantsusuutsu" :> <<
      "kategori", "kanri_bangou", "taitoru", "mojisuu", "fuzokuhin", "ranku", "komento",
      "sozai", "iro", "saizu", "kitake", "_katahaba", "mihaba", "sodetake",
      "konpou_saizu", "konpou_kigou", "bihin", "burando", "furii", "sode", "mono",
      "danjo", "saisun1", "rakku", "kingaku", "matagami", "matashita", "uesuto",
      "momohaba", "susohaba", "soutake", "hippu", "shiiresaki", "shiirebi", "genka">>
  @@ "ansanburu" :> <<
      "kategori", "kanri_bangou", "taitoru", "mojisuu", "fuzokuhin", "ranku", "komento",
      "sozai", "iro", "saizu", "kitake", "_katahaba", "mihaba", "sodetake",
      "konpou_saizu", "konpou_kigou", "bihin", "burando", "furii", "sode", "mono",
      "danjo", "saisun1", "rakku", "kingaku", "matagami", "matashita", "uesuto",
      "momohaba", "susohaba", "soutake", "hippu", "shiiresaki", "shiirebi", "genka">>
  @@ "kutsu" :> <<
      "kategori", "kanri_bangou", "taitoru", "mojisuu", "fuzokuhin", "ranku", "komento",
      "sozai", "iro", "saizu", "kitake", "_katahaba", "mihaba", "sodetake",
      "konpou_saizu", "konpou_kigou", "bihin", "burando", "furii", "sode", "mono",
      "danjo", "saisun1", "rakku", "kingaku", "matagami", "matashita", "uesuto",
      "momohaba", "susohaba", "soutake", "hippu", "shiiresaki", "shiirebi", "genka">>
  @@ "buutsu" :> <<
      "kategori", "kanri_bangou", "taitoru", "mojisuu", "fuzokuhin", "ranku", "komento",
      "sozai", "iro", "saizu", "kitake", "_katahaba", "mihaba", "sodetake",
      "konpou_saizu", "konpou_kigou", "bihin", "burando", "furii", "sode", "mono",
      "danjo", "saisun1", "rakku", "kingaku", "matagami", "matashita", "uesuto",
      "momohaba", "susohaba", "soutake", "hippu", "shiiresaki", "shiirebi", "genka">>
  @@ "beruto" :> <<
      "kategori", "kanri_bangou", "taitoru", "mojisuu", "fuzokuhin", "ranku", "komento",
      "sozai", "iro", "saizu", "kitake", "_katahaba", "mihaba", "sodetake",
      "konpou_saizu", "konpou_kigou", "bihin", "burando", "furii", "sode", "mono",
      "danjo", "saisun1", "rakku", "kingaku", "matagami", "matashita", "uesuto",
      "momohaba", "susohaba", "soutake", "hippu", "shiiresaki", "shiirebi", "genka">>
  @@ "nekutai_tateyoko" :> <<
      "kategori", "kanri_bangou", "taitoru", "mojisuu", "fuzokuhin", "ranku", "komento",
      "sozai", "iro", "saizu", "kitake", "_katahaba", "mihaba", "sodetake",
      "konpou_saizu", "konpou_kigou", "bihin", "burando", "furii", "sode", "mono",
      "danjo", "saisun1", "rakku", "kingaku", "matagami", "matashita", "uesuto",
      "momohaba", "susohaba", "soutake", "hippu", "shiiresaki", "shiirebi", "genka">>
  @@ "boushi" :> <<
      "kategori", "kanri_bangou", "taitoru", "mojisuu", "fuzokuhin", "ranku", "komento",
      "sozai", "iro", "saizu", "kitake", "_katahaba", "mihaba", "sodetake",
      "konpou_saizu", "konpou_kigou", "bihin", "burando", "furii", "sode", "mono",
      "danjo", "saisun1", "rakku", "kingaku", "matagami", "matashita", "uesuto",
      "momohaba", "susohaba", "soutake", "hippu", "shiiresaki", "shiirebi", "genka">>
  @@ "baggu" :> <<
      "kategori", "kanri_bangou", "taitoru", "mojisuu", "fuzokuhin", "ranku", "komento",
      "sozai", "iro", "saizu", "kitake", "_katahaba", "mihaba", "sodetake",
      "konpou_saizu", "konpou_kigou", "bihin", "burando", "furii", "sode", "mono",
      "danjo", "saisun1", "rakku", "kingaku", "matagami", "matashita", "uesuto",
      "momohaba", "susohaba", "soutake", "hippu", "shiiresaki", "shiirebi", "genka">>
  @@ "nekkuresu" :> <<
      "kategori", "kanri_bangou", "taitoru", "mojisuu", "fuzokuhin", "ranku", "komento",
      "sozai", "iro", "saizu", "kitake", "_katahaba", "mihaba", "sodetake",
      "konpou_saizu", "konpou_kigou", "bihin", "burando", "furii", "sode", "mono",
      "danjo", "saisun1", "rakku", "kingaku", "matagami", "matashita", "uesuto",
      "momohaba", "susohaba", "soutake", "hippu", "shiiresaki", "shiirebi", "genka">>
  @@ "sangurasu" :> <<
      "kategori", "kanri_bangou", "taitoru", "mojisuu", "fuzokuhin", "ranku", "komento",
      "sozai", "iro", "saizu", "kitake", "_katahaba", "mihaba", "sodetake",
      "konpou_saizu", "konpou_kigou", "bihin", "burando", "furii", "sode", "mono",
      "danjo", "saisun1", "rakku", "kingaku", "matagami", "matashita", "uesuto",
      "momohaba", "susohaba", "soutake", "hippu", "shiiresaki", "shiirebi", "genka">>

SheetNames == DOMAIN SHEET_HEADERS

\* self.category_keywords, in registration order; "." "*" are the regex
\* metacharacters of the three two-part patterns
category_keywords ==
  <<
   [category |-> "toppusu", keywords |-> <<
      <<"bu", "ra", "u", "su">>,
      <<"shi", "xya", "tsu">>,
      <<"lat_t", "shi", "xya", "tsu">>,
      <<"ka", "xtsu", "to", "so", "-">>,
      <<"ni", "xtsu", "to">>,
      <<"se", "-", "ta", "-">>,
      <<"pa", "-", "ka", "-">>,
      <<"fu", "ri", "-", "su">>,
      <<"ji", "xya", "ke", "xtsu", "to">>,
      <<"ka", "-", "de", "xi", "ga", "n">>,
      <<"be", "su", "to">>,
      <<"ta", "n", "ku", "to", "xtsu", "pu">>,
      <<"ki", "xya", "mi", "so", "-", "ru">>,
      <<"chi", "xyu", "ni", "xtsu", "ku">>>>],
   [category |-> "pantsu", keywords |-> <<
      <<"pa", "n", "tsu">>,
      <<"zu", "bo", "n">>,
      <<"ji", "-", "n", "zu">>,
      <<"de", "ni", "mu">>,
      <<"chi", "no", "pa", "n">>,
      <<"su", "ra", "xtsu", "ku", "su">>,
      <<"re", "gi", "n", "su">>,
      <<"shi", "xyo", "-", "to", "pa", "n", "tsu">>,
      <<"ha", "-", "fu", "pa", "n", "tsu">>,
      <<"wa", "i", "do", "pa", "n", "tsu">>,
      <<"su", "ki", "ni", "-">>,
      <<"bo", "to", "mu", "su">>,
      <<"to", "ra", "u", "za", "-">>>>],
   [category |-> "sukaato", keywords |-> <<
      <<"su", "ka", "-", "to">>,
      <<"mi", "ni", "su", "ka", "-", "to">>,
      <<"ro", "n", "gu", "su", "ka", "-", "to">>,
      <<"ma", "ki", "shi", "su", "ka", "-", "to">>,
      <<"fu", "re", "a", "su", "ka", "-", "to">>,
      <<"ta", "i", "to", "su", "ka", "-", "to">>,
      <<"pu", "ri", "-", "tsu", "su", "ka", "-", "to">>>>],
   [category |-> "wanpiisu", keywords |-> <<
      <<"wa", "n", "pi", "-", "su">>,
      <<"do", "re", "su">>,
      <<"ma", "ki", "shi", "wa", "n", "pi", "-", "su">>,
      <<"mi", "ni", "wa", "n", "pi", "-", "su">>,
      <<"shi", "xya", "tsu", "wa", "n", "pi", "-", "su">>,
      <<"ni", "xtsu", "to", "wa", "n", "pi", "-", "su">>>>],
   [category |-> "ooruinwan", keywords |-> <<
      <<"o", "-", "ru", "i", "n", "wa", "n">>,
      <<"sa", "ro", "pe", "xtsu", "to">>,
      <<"o", "-", "ba", "-", "o", "-", "ru">>,
      <<"ji", "xya", "n", "pu", "su", "-", "tsu">>,
      <<"ko", "n", "bi", "ne", "zo", "n">>,
      <<"h_tsu", "h_na", "h_gi">>>>],
   [category |-> "sukaatosuutsu", keywords |-> <<
      <<"su", "ka", "-", "to", "su", "-", "tsu">>,
      <<"su", "-", "tsu", ".", "*", "su", "ka", "-", "to">>,
      <<"se", "xtsu", "to", "a", "xtsu", "pu", ".", "*", "su", "ka", "-", "to">>>>],
   [category |-> "pantsusuutsu", keywords |-> <<
      <<"pa", "n", "tsu", "su", "-", "tsu">>,
      <<"su", "-", "tsu", ".", "*", "pa", "n", "tsu">>,
      <<"se", "xtsu", "to", "a", "xtsu", "pu", ".", "*", "pa", "n", "tsu">>>>],
   [category |-> "ansanburu", keywords |-> <<
      <<"a", "n", "sa", "n", "bu", "ru">>,
      <<"tsu", "i", "n", "se", "xtsu", "to">>,
      <<"se", "xtsu", "to", ".", "*", "ni", "xtsu", "to">>>>],
   [category |-> "kutsu", keywords |-> <<
      <<"pa", "n", "pu", "su">>,
      <<"hi", "-", "ru">>,
      <<"fu", "ra", "xtsu", "to", "shi", "xyu", "-", "zu">>,
      <<"k_kawa", "k_kutsu">>,
      <<"ro", "-", "fu", "xa", "-">>,
      <<"sa", "n", "da", "ru">>,
      <<"mi", "xyu", "-", "ru">>,
      <<"o", "xtsu", "ku", "su", "fu", "xo", "-", "do">>>>],
   [category |-> "buutsu", keywords |-> <<
      <<"bu", "-", "tsu">>,
      <<"ro", "n", "gu", "bu", "-", "tsu">>,
      <<"shi", "xyo", "-", "to", "bu", "-", "tsu">>,
      <<"a", "n", "ku", "ru", "bu", "-", "tsu">>,
      <<"ni", "-", "ha", "i", "bu", "-", "tsu">>,
      <<"mu", "-", "to", "n", "bu", "-", "tsu">>>>],
   [category |-> "beruto", keywords |-> <<
      <<"be", "ru", "to">>,
      <<"re", "za", "-", "be", "ru", "to">>,
      <<"chi", "xe", "-", "n", "be", "ru", "to">>>>],
   [category |-> "nekutai_tateyoko", keywords |-> <<
      <<"ne", "ku", "ta", "i">>,
      <<"ta", "i">>,
      <<"bo", "u", "ta", "i">>>>],
   [category |-> "boushi", keywords |-> <<
      <<"k_bou", "k_ko">>,
      <<"ki", "xya", "xtsu", "pu">>,
      <<"ha", "xtsu", "to">>,
      <<"be", "re", "-", "k_bou">>,
      <<"ni", "xtsu", "to", "k_bou">>,
      <<"bi", "-", "ni", "-">>,
      <<"k_mugi", "h_wa", "h_ra", "k_bou", "k_ko">>,
      <<"ha", "n", "chi", "n", "gu">>>>],
   [category |-> "baggu", keywords |-> <<
      <<"ba", "xtsu", "gu">>,
      <<"ha", "n", "do", "ba", "xtsu", "gu">>,
      <<"shi", "xyo", "ru", "da", "-", "ba", "xtsu", "gu">>,
      <<"to", "-", "to", "ba", "xtsu", "gu">>,
      <<"ku", "ra", "xtsu", "chi", "ba", "xtsu", "gu">>,
      <<"ri", "xyu", "xtsu", "ku">>,
      <<"ba", "xtsu", "ku", "pa", "xtsu", "ku">>,
      <<"po", "-", "chi">>,
      <<"u", "e", "su", "to", "ba", "xtsu", "gu">>,
      <<"me", "xtsu", "se", "n", "ji", "xya", "-", "ba", "xtsu", "gu">>>>],
   [category |-> "nekkuresu", keywords |-> <<
      <<"ne", "xtsu", "ku", "re", "su">>,
      <<"chi", "xyo", "-", "ka", "-">>,
      <<"pe", "n", "da", "n", "to">>,
      <<"chi", "xe", "-", "n">>>>],
   [category |-> "sangurasu", keywords |-> <<
      <<"sa", "n", "gu", "ra", "su">>,
      <<"me", "ga", "ne">>,
      <<"k_gan", "k_kyou">>,
      <<"gu", "ra", "su">>>>]
  >>

\* self.default_sheet
default_sheet == "toppusu"

\* re.search(pattern, text): pattern is literal tokens and ".*"; "." does
\* not match a newline
RECURSIVE MatchAt(_, _, _)
MatchAt(p, t, j) ==
  IF p = <<>> THEN TRUE
  ELSE IF Len(p) >= 2 /\ p[1] = "." /\ p[2] = "*"
    THEN \E e \in j..(Len(t) + 1) :
           /\ \A x \in j..(e - 1) : t[x] # "nl"
           /\ MatchAt(SubSeq(p, 3, Len(p)), t, e)
  ELSE IF p[1] = "."
    THEN j <= Len(t) /\ t[j] # "nl" /\ MatchAt(Tail(p), t, j + 1)
  ELSE j <= Len(t) /\ t[j] = p[1] /\ MatchAt(Tail(p), t, j + 1)

re_search(p, t) == \E j \in 1..(Len(t) + 1) : MatchAt(p, t, j)

\* the exception a method call on a value of the wrong type raises
AttributeError == "AttributeError"

\* the text the keywords are searched in (title_lower); AttributeError
\* when title or a truthy product type is not a str
SearchString(title, product_data) ==
  LET product_type == Or(Get(product_data, "mono", EmptyStr),
                         Get(product_data, "product_type", EmptyStr))
  IN IF title.k # "str" THEN <<AttributeError>>
     ELSE IF ~Truthy(product_type) THEN Lower(title.s)
     ELSE IF product_type.k # "str" THEN <<AttributeError>>
     ELSE Lower(title.s) \o <<"sp">> \o Lower(product_type.s)

CategoryMatches(c, text) ==
  \E q \in 1..Len(category_keywords[c].keywords) :
     re_search(Lower(category_keywords[c].keywords[q]), text)

\* mutant: the last matching category wins
RECURSIVE ScanCategories_LastMatch(_, _)
ScanCategories_LastMatch(c, text) ==
  IF c > Len(category_keywords) THEN default_sheet
  ELSE LET later == ScanCategories_LastMatch(c + 1, text)
       IN IF (\E d \in (c + 1)..Len(category_keywords) : CategoryMatches(d, text))
               \/ ~CategoryMatches(c, text)
            THEN later
            ELSE category_keywords[c].category

RECURSIVE ScanCategories(_, _)
ScanCategories(c, text) ==
  IF c > Len(category_keywords) THEN default_sheet
  ELSE IF CategoryMatches(c, text) THEN category_keywords[c].category
  ELSE ScanCategories(c + 1, text)

classify_product_category(title, product_data) ==
  LET text == SearchString(title, product_data)
  IN IF text = <<AttributeError>> THEN AttributeError
     ELSE ScanCategories(1, text)

----------------------------------------------------------------------------
\* field_mappings of map_data_to_sheet_headers: column -> aliases in order
field_mappings ==
     "kategori" :> <<"category", "kategori">>
  @@ "kanri_bangou" :> <<"management_number", "kanri_bangou", "id">>
  @@ "taitoru" :> <<"title", "taitoru">>
  @@ "mojisuu" :> <<"character_count", "mojisuu">>
  @@ "fuzokuhin" :> <<"accessories", "fuzokuhin">>
  @@ "nihon_saizu" :> <<"japanese_size", "nihon_saizu">>
  @@ "ranku" :> <<"rank", "ranku", "condition_rank">>
  @@ "komento" :> <<"comment", "komento", "description">>
  @@ "shitate_shuunou" :> <<"tailoring_storage", "shitate_shuunou">>
  @@ "sozai" :> <<"material", "sozai">>
  @@ "iro" :> <<"color", "iro">>
  @@ "saizu" :> <<"size", "saizu">>
  @@ "konpou_saizu" :> <<"packaging_size", "konpou_saizu">>
  @@ "konpou_kigou" :> <<"packaging_symbol", "konpou_kigou">>
  @@ "bihin" :> <<"excellent_condition", "bihin">>
  @@ "burando" :> <<"brand", "burando">>
  @@ "furii" :> <<"free_text", "furii">>
  @@ "sode" :> <<"sleeve", "sode">>
  @@ "mono" :> <<"item_type", "mono", "product_type">>
  @@ "danjo" :> <<"gender", "danjo">>
  @@ "rakku" :> <<"rack", "rakku">>
  @@ "shiiresaki" :> <<"supplier", "shiiresaki">>
  @@ "shiirebi" :> <<"purchase_date", "shiirebi">>
  @@ "genka" :> <<"cost_price", "genka">>
  @@ "kingaku" :> <<"price", "kingaku", "amount">>
  @@ "kitake" :> <<"garment_length", "kitake">>
  @@ "_katahaba" :> <<"shoulder_width", "shoulder_width", "katahaba", "_katahaba">>
  @@ "mihaba" :> <<"chest_width", "mihaba">>
  @@ "sodetake" :> <<"sleeve_length", "sodetake">>
  @@ "matagami" :> <<"rise", "matagami">>
  @@ "matashita" :> <<"inseam", "matashita">>
  @@ "uesuto" :> <<"waist", "uesuto">>
  @@ "momohaba" :> <<"thigh_width", "momohaba">>
  @@ "susohaba" :> <<"hem_width", "susohaba">>
  @@ "soutake" :> <<"total_length", "soutake">>
  @@ "hippu" :> <<"hip", "hippu">>
  @@ "saisun1" :> <<"measurement1", "saisun1">>
  @@ "saisun2" :> <<"measurement2", "saisun2">>

\* the inner "for field_key in field_mappings[header]" loop with its break
RECURSIVE AliasScan(_, _, _)
AliasScan(aliases, a, data) ==
  IF a > Len(aliases) THEN None
  ELSE IF aliases[a] \in DOMAIN data THEN data[aliases[a]]
  ELSE AliasScan(aliases, a + 1, data)

\* mutant: the aliases are tried before the column name itself
ResolveField_AliasFirst(header, data) ==
  IF header \in DOMAIN field_mappings
       /\ \E a \in 1..Len(field_mappings[header]) :
            field_mappings[header][a] # header
            /\ field_mappings[header][a] \in DOMAIN data
    THEN data[field_mappings[header][
           CHOOSE a \in 1..Len(field_mappings[header]) :
              /\ field_mappings[header][a] # header
              /\ field_mappings[header][a] \in DOMAIN data
              /\ \A b \in 1..(a - 1) :
                    field_mappings[header][b] = header
                    \/ field_mappings[header][b] \notin DOMAIN data]]
  ELSE IF header \in DOMAIN data THEN data[header]
  ELSE None

\* the value map_data_to_sheet_headers finds for one header
ResolveField(header, data) ==
  IF header \in DOMAIN data THEN data[header]
  ELSE IF header \in DOMAIN field_mappings
    THEN AliasScan(field_mappings[header], 1, data)
  ELSE None

\* mutant: a header that resolves to None gets no entry
RECURSIVE MapHeaders_SkipNull(_, _, _, _)
MapHeaders_SkipNull(headers, c, data, mapped) ==
  IF c > Len(headers) THEN mapped
  ELSE MapHeaders_SkipNull(headers, c + 1, data,
         IF ResolveField(headers[c], data) = None THEN mapped
         ELSE DictSet(mapped, headers[c], ResolveField(headers[c], data)))

\* the "for header in headers" loop filling mapped_data
RECURSIVE MapHeaders(_, _, _, _)
MapHeaders(headers, c, data, mapped) ==
  IF c > Len(headers) THEN mapped
  ELSE MapHeaders(headers, c + 1, data,
                  DictSet(mapped, headers[c], ResolveField(headers[c], data)))

map_data_to_sheet_headers(data, sheet_name) ==
  IF sheet_name \notin DOMAIN SHEET_HEADERS THEN EmptyDict
  ELSE MapHeaders(SHEET_HEADERS[sheet_name], 1, data, EmptyDict)

----------------------------------------------------------------------------
\* mutant: the fragment lacks the "yaku" (approximately) sign
Fragment_NoApprox(label, v) ==
  label \o <<"f_colon">> \o Format(v) \o <<"lat_c", "lat_m">>

\* one fragment f"<label>:yaku{value}cm" of generate_measurement_text
Fragment(label, v) ==
  label \o <<"f_colon", "k_yaku">> \o Format(v) \o <<"lat_c", "lat_m">>

\* the fragments of one category: <<key, label>> in the order of the ifs;
\* the shoulder entry reads "_katahaba" or "katahaba"
MeasurementFields(sheet_name) ==
  CASE sheet_name = "toppusu" ->
         << <<"kitake", <<"k_ki", "k_take">> >>,
            <<"_katahaba", <<"k_kata", "k_haba">> >>,
            <<"mihaba", <<"k_mi", "k_haba">> >>,
            <<"sodetake", <<"k_sode", "k_take">> >> >>
    [] sheet_name = "pantsu" ->
         << <<"matagami", <<"k_mata", "k_ue">> >>,
            <<"matashita", <<"k_mata", "k_shita">> >>,
            <<"uesuto", <<"u", "e", "su", "to">> >>,
            <<"momohaba", <<"h_mo", "h_mo", "k_haba">> >>,
            <<"susohaba", <<"k_suso", "k_haba">> >> >>
    [] sheet_name = "sukaato" ->
         << <<"soutake", <<"k_sou", "k_take">> >>,
            <<"uesuto", <<"u", "e", "su", "to">> >>,
            <<"hippu", <<"hi", "xtsu", "pu">> >> >>
    [] OTHER -> << >>

\* the value one "if data.get(key)" reads
MeasurementValue(key, data) ==
  IF key = "_katahaba"
    THEN Or(Get(data, "_katahaba", None), Get(data, "katahaba", None))
    ELSE Get(data, key, None)

\* measurements, the list of fragments appended so far
RECURSIVE Measurements(_, _, _)
Measurements(fields, f, data) ==
  IF f > Len(fields) THEN << >>
  ELSE LET v == MeasurementValue(fields[f][1], data)
       IN (IF Truthy(v) THEN << Fragment(fields[f][2], v) >> ELSE << >>)
          \o Measurements(fields, f + 1, data)

\* "f_sp".join(measurements)
RECURSIVE Join(_)
Join(parts) ==
  IF parts = << >> THEN << >>
  ELSE IF Len(parts) = 1 THEN parts[1]
  ELSE parts[1] \o <<"f_sp">> \o Join(Tail(parts))

generate_measurement_text(data, sheet_name) ==
  Join(Measurements(MeasurementFields(sheet_name), 1, data))

\* lines 364-370 / 491-497: merge the measurement text into mapped_data
Enrich(mapped, measurement_text) ==
  IF measurement_text = << >> THEN mapped
  ELSE LET m1 == DictSet(mapped, "saisun1", Str(measurement_text))
       IN IF ~Truthy(Get(m1, "saisun2", None))
            THEN DictSet(m1, "saisun2", Str(measurement_text))
            ELSE m1

----------------------------------------------------------------------------
\* A worksheet is the sequence of its rows 1..max_row, a row the sequence of
\* its cell values; a workbook maps the names of its sheets to worksheets.

max_row(ws) == Len(ws)

\* ws.cell(row, column).value
CellValue(ws, row, col) ==
  IF row <= Len(ws) /\ col <= Len(ws[row]) THEN ws[row][col] ELSE None

\* a column name in a header cell is a str of one token
Name(h) == Str(<<h>>)
NameOf(v) == v.s[1]

\* headers = [cell.value for cell in ws[1] if cell.value]
SheetHeaders(ws) ==
  LET cells == SelectSeq(ws[1], Truthy)
  IN [j \in 1..Len(cells) |-> NameOf(cells[j])]

\* mutant: None is not turned into ''
RowData_KeepNull(headers, mapped) ==
  [j \in 1..Len(headers) |-> Get(mapped, headers[j], EmptyStr)]

\* row_data: mapped_data.get(header, '') with None turned into ''
RowData(headers, mapped) ==
  [j \in 1..Len(headers) |->
     LET value == Get(mapped, headers[j], EmptyStr)
     IN IF value = None THEN EmptyStr ELSE value]

\* mutant: only the first cell of the row is looked at
is_row_empty_FirstCell(ws, row_num, num_columns) ==
  LET cell_value == CellValue(ws, row_num, 1)
  IN cell_value = None \/ BlankAfterStrip(cell_value)

is_row_empty(ws, row_num, num_columns) ==
  \A col \in 1..num_columns :
     LET cell_value == CellValue(ws, row_num, col)
     IN cell_value = None \/ BlankAfterStrip(cell_value)

\* mutant: the fallback is max_row instead of max_row + 1
RECURSIVE ScanRows_NoNextRow(_, _, _)
ScanRows_NoNextRow(ws, row, num_columns) ==
  IF row > max_row(ws) THEN max_row(ws)
  ELSE IF is_row_empty(ws, row, num_columns) THEN row
  ELSE ScanRows_NoNextRow(ws, row + 1, num_columns)

\* the "for row in range(2, ws.max_row + 1)" scan and its fallback
RECURSIVE ScanRows(_, _, _)
ScanRows(ws, row, num_columns) ==
  IF row > max_row(ws) THEN max_row(ws) + 1
  ELSE IF is_row_empty(ws, row, num_columns) THEN row
  ELSE ScanRows(ws, row + 1, num_columns)

\* mutant: always append after the last row
FindTargetRow_Append(ws, num_columns) == max_row(ws) + 1

FindTargetRow(ws, num_columns) == ScanRows(ws, 2, num_columns)

\* "for col, value in enumerate(row_data, 1): ws.cell(..., value=value)".
\* ws.cell creates the cell (and so the row) when missing and then sets its
\* value; a list value makes the setter raise, which ends the loop with the
\* cells before it written.
WriteCells(ws, target_row, row_data) ==
  LET bad == {c \in 1..Len(row_data) : row_data[c].k = "list"}
      stop == IF bad = {} THEN Len(row_data) + 1
              ELSE CHOOSE c \in bad : \A d \in bad : c <= d
      touched == IF bad = {} THEN Len(row_data) ELSE stop
      old == IF target_row <= Len(ws) THEN ws[target_row] ELSE << >>
      width == IF touched > Len(old) THEN touched ELSE Len(old)
      new == [c \in 1..width |->
                IF c < stop THEN row_data[c]
                ELSE IF c <= Len(old) THEN old[c] ELSE None]
  IN [raised |-> bad # {},
      ws |-> IF touched = 0 THEN ws
             ELSE IF target_row <= Len(ws) THEN [ws EXCEPT ![target_row] = new]
             ELSE Append(ws, new)]

\* book.save(path) followed by load_workbook(path): openpyxl writes a cell
\* whose value is '' as an empty cell, which loads as None; every other
\* value, and the extent of the sheet, come back as they were.
SavedCell(v) == IF v = EmptyStr THEN None ELSE v
Saved(bk) ==
  [s \in DOMAIN bk |->
     [r \in 1..Len(bk[s]) |->
        [c \in 1..Len(bk[s][r]) |-> SavedCell(bk[s][r][c])]]]

\* Bound: the records the two writers process in one run, over all calls
MaxRecords == 2

\* Titles
Shirt == Str(<<"shi", "xya", "tsu">>)
Denim == Str(<<"de", "ni", "mu">>)
Skirt == Str(<<"su", "ka", "-", "to">>)
FleeceBlouson == Str(<<"k_naga", "k_sode", "sp", "fu", "ri", "-", "su", "sp",
                       "bu", "ru", "zo", "n">>)

\* Input records of the two writers
Records ==
  { EmptyDict,
    "title" :> FleeceBlouson @@ "kitake" :> Num(66) @@ "mihaba" :> Num(58),
    "taitoru" :> Shirt @@ "kitake" :> Num(66)
       @@ "saisun2" :> Str(<<"lat_o", "lat_k">>),
    "taitoru" :> Denim @@ "uesuto" :> Str(<<"7", "0">>) @@ "saisun2" :> EmptyStr,
    "taitoru" :> Skirt @@ "soutake" :> Num(80),
    "taitoru" :> Shirt @@ "mono" :> Num(5),
    "taitoru" :> Shirt @@ "iro" :> List,
    "taitoru" :> None @@ "title" :> Denim,
    "taitoru" :> Str(<<"sp">>) }

\* Worksheets of the stored workbook
HeaderRow(names) == [j \in 1..Len(names) |-> Name(names[j])]
BlankRow(width) == [j \in 1..width |-> None]
FullRow(width) == [j \in 1..width |-> IF j = 3 THEN Str(<<"lat_x">>) ELSE None]
SpacesRow(width) ==
  [j \in 1..width |-> IF j = 3 THEN Str(<<"sp", "f_sp">>)
                      ELSE IF j = 4 THEN Str(<<"tab">>) ELSE None]

Schema == SHEET_HEADERS["toppusu"]
SchemaAndSaisun2 == Schema \o <<"saisun2">>

Sheet_HeaderOnly == << HeaderRow(Schema) >>
Sheet_Gap ==
  << HeaderRow(Schema), FullRow(35), FullRow(35), SpacesRow(35), FullRow(35) >>
Sheet_Full == << HeaderRow(Schema), FullRow(35), FullRow(35) >>
Sheet_Saisun2 == << HeaderRow(SchemaAndSaisun2), FullRow(36), BlankRow(36) >>
\* a sheet whose first header cell is blank
Sheet_BlankHeader ==
  << [HeaderRow(Schema) EXCEPT ![1] = None], FullRow(35) >>

\* The stored workbooks the runs start from; the first one has no sukaato
\* sheet.
InitialWorkbooks ==
  { "toppusu" :> Sheet_Gap @@ "pantsu" :> Sheet_HeaderOnly,
    "toppusu" :> Sheet_Saisun2 @@ "pantsu" :> Sheet_Full
       @@ "sukaato" :> Sheet_BlankHeader }


\* The part of one record's processing that does not touch the workbook:
\* the title check, classify, map and enrich (lines 353-370 and 476-497).
NoRow == 0

NotReady(outcome, sheet) ==
  [outcome |-> outcome, target_sheet |-> sheet, mapped_data |-> EmptyDict,
   measurement_text |-> << >>]

\* mutant: an empty mapping is not a failure
PrepareRow_NoEmptyCheck(sheet, mapped_data, text) ==
  [outcome |-> "ready", target_sheet |-> sheet,
   mapped_data |-> Enrich(mapped_data, text), measurement_text |-> text]

\* lines 361-370: the empty-mapping return and the merge of the text
PrepareRow(sheet, mapped_data, text) ==
  IF DOMAIN mapped_data = {} THEN NotReady("map_failed", sheet)
  ELSE [outcome |-> "ready", target_sheet |-> sheet,
        mapped_data |-> Enrich(mapped_data, text), measurement_text |-> text]

\* lines 357-365: target_sheet is what the classifier returned or raised
PrepareSheet(data, sheet) ==
  IF sheet = AttributeError THEN NotReady("classify_raised", "")
  ELSE PrepareRow(sheet, map_data_to_sheet_headers(data, sheet),
                  generate_measurement_text(data, sheet))

\* mutant: the title check is skipped
Prepare_NoTitleCheck(data) ==
  PrepareSheet(data, classify_product_category(
     Or(Get(data, "taitoru", EmptyStr), Get(data, "title", EmptyStr)), data))

Prepare(data) ==
  LET title == Or(Get(data, "taitoru", EmptyStr), Get(data, "title", EmptyStr))
  IN IF ~Truthy(title) THEN NotReady("title_required", "")
     ELSE PrepareSheet(data, classify_product_category(title, data))

\* Prepare tabulated over the input records
RECURSIVE Tabulate(_)
Tabulate(S) ==
  IF S = {} THEN << >>
  ELSE LET data == CHOOSE x \in S : TRUE
       IN (data :> Prepare(data)) @@ Tabulate(S \ {data})

Prepared == Tabulate(Records)

\* mutant: an exception of a cell write is not noticed
WriteRecord_IgnoreRaise(bk, q) ==
  LET base == [outcome |-> q.outcome, target_sheet |-> q.target_sheet,
               mapped_data |-> q.mapped_data,
               measurement_text |-> q.measurement_text,
               row_data |-> << >>, target_row |-> NoRow, book |-> bk]
  IN IF q.outcome # "ready" THEN base
     ELSE IF q.target_sheet \notin DOMAIN bk
       THEN [base EXCEPT !.outcome = "sheet_not_found"]
     ELSE LET ws == bk[q.target_sheet]
              rd == RowData(SheetHeaders(ws), q.mapped_data)
              tr == FindTargetRow(ws, Len(rd))
              w == WriteCells(ws, tr, rd)
     IN [base EXCEPT !.outcome = "written",
                     !.row_data = rd, !.target_row = tr,
                     !.book = [bk EXCEPT ![q.target_sheet] = w.ws]]

\* The writer's part for a prepared record q against the open workbook bk:
\* the sheet check, row_data, the target row and the write loop.
WriteRecord(bk, q) ==
  LET base == [outcome |-> q.outcome, target_sheet |-> q.target_sheet,
               mapped_data |-> q.mapped_data,
               measurement_text |-> q.measurement_text,
               row_data |-> << >>, target_row |-> NoRow, book |-> bk]
  IN IF q.outcome # "ready" THEN base
     ELSE IF q.target_sheet \notin DOMAIN bk
       THEN [base EXCEPT !.outcome = "sheet_not_found"]
     ELSE LET ws == bk[q.target_sheet]
              rd == RowData(SheetHeaders(ws), q.mapped_data)
              tr == FindTargetRow(ws, Len(rd))
              w == WriteCells(ws, tr, rd)
     IN [base EXCEPT !.outcome = IF w.raised THEN "write_raised" ELSE "written",
                     !.row_data = rd, !.target_row = tr,
                     !.book = [bk EXCEPT ![q.target_sheet] = w.ws]]

\* One record against the open workbook bk: the body of the loop of
\* bulk_add_data, which is also the body of add_data_to_excel.
ProcessRecord(bk, data) == WriteRecord(bk, Prepared[data])

----------------------------------------------------------------------------
NoBook == [x \in {} |-> << >>]
NoCur == [data |-> EmptyDict, outcome |-> "none", target_sheet |-> "",
          mapped_data |-> EmptyDict, measurement_text |-> << >>,
          row_data |-> << >>, target_row |-> NoRow, ws_before |-> << >>]
NoResult == [ok |-> FALSE, msg |-> "none"]
NoClassified == [title |-> EmptyStr, product_data |-> EmptyDict, result |-> ""]
NoMapping == [data |-> EmptyDict, sheet_name |-> "none", result |-> EmptyDict]
NoMeasured == [data |-> EmptyDict, sheet_name |-> "none", result |-> << >>]
NoAiClassified ==
  [product_info |-> EmptyDict, ai |-> [kind |-> "none", content |-> << >>],
   result |-> ""]
NoWriter ==
  [stage |-> "idle", kind |-> "none", data |-> EmptyDict, book |-> NoBook,
   target_sheet |-> "", target_row |-> NoRow, row_data |-> << >>,
   ok |-> FALSE, saves_at_load |-> 0, save_no |-> 0]
NoWriters == [w \in {1, 2} |-> NoWriter]
NoLookedUp ==
  [table |-> << >>, product_info |-> EmptyDict,
   ai |-> [kind |-> "none", content |-> << >>],
   category_number |-> None, kategori |-> None, outcome |-> "none",
   target_sheet |-> "", row |-> << >>]

VARIABLES
  stored,          \* the workbook file at self.excel_file_path
  book,            \* the workbook the last call of a writer loaded
  pc,              \* "idle", "loop", "bulk_done", "add_done"
  list_len,        \* len(data_list) of the running bulk_add_data
  data_list,       \* the records of data_list the loop has reached
  i,               \* records of data_list processed so far
  success_count, failure_count, error_messages,
  cur,             \* locals of the record processed last
  result,          \* return value of the last add_data_to_excel
  used,            \* records processed so far, over all calls
  classified,      \* last classify_product_category call and its result
  mapping,         \* last map_data_to_sheet_headers call and its result
  opens,           \* load_workbook calls of the last bulk_add_data call
  saves,           \* book.save calls of the last bulk_add_data call
  measured,        \* last generate_measurement_text call and its result
  ai_classified,   \* last classify_product_with_ai call and its result
  writers,         \* the two concurrent calls of a writer, each with its locals
  looked_up        \* last category-number lookup and what the creator stored

vars == <<stored, book, pc, list_len, data_list, i, success_count, failure_count,
          error_messages, cur, result, used, classified, mapping, opens,
          saves, measured, ai_classified, writers, looked_up>>

Init ==
  /\ stored \in InitialWorkbooks
  /\ book = NoBook
  /\ pc = "idle"
  /\ list_len = 0
  /\ data_list = << >>
  /\ i = 0
  /\ success_count = 0
  /\ failure_count = 0
  /\ error_messages = << >>
  /\ cur = NoCur
  /\ result = NoResult
  /\ used = 0
  /\ classified = NoClassified
  /\ mapping = NoMapping
  /\ opens = 0
  /\ saves = 0
  /\ measured = NoMeasured
  /\ ai_classified = NoAiClassified
  /\ writers = NoWriters
  /\ looked_up = NoLookedUp

Locals(p, data, bk) ==
  [data |-> data, outcome |-> p.outcome, target_sheet |-> p.target_sheet,
   mapped_data |-> p.mapped_data, measurement_text |-> p.measurement_text,
   row_data |-> p.row_data, target_row |-> p.target_row,
   ws_before |-> IF p.target_row # NoRow THEN bk[p.target_sheet] ELSE << >>]

Msg(row, kind) == [row |-> row, kind |-> kind]

\* bulk_add_data up to the start of the loop: the empty-list return, the
\* initialisation and load_workbook (open_ok = FALSE: it raises).  Of the
\* argument only its length is fixed here; each record is drawn when the
\* loop reaches it.
bulk_add_data_start(len, open_ok) ==
  /\ UNCHANGED <<writers, looked_up>>
  /\ pc \in {"idle", "bulk_done", "add_done"}
  /\ len <= MaxRecords - used
  /\ UNCHANGED used
  /\ list_len' = len
  /\ data_list' = << >>
  /\ i' = 0
  /\ cur' = NoCur
  /\ IF len = 0
       THEN /\ pc' = "bulk_done"
            /\ success_count' = 0 /\ failure_count' = 0
            /\ error_messages' = << >>
            /\ book' = NoBook
       ELSE IF ~open_ok
       THEN /\ pc' = "bulk_done"
            /\ success_count' = 0
            /\ failure_count' = 0 + len
            /\ error_messages' = << Msg(0, "critical") >>
            /\ book' = NoBook
       ELSE /\ pc' = "loop"
            /\ success_count' = 0 /\ failure_count' = 0
            /\ error_messages' = << >>
            /\ book' = stored
  /\ opens' = IF len = 0 THEN 0 ELSE 1
  /\ saves' = 0
  /\ UNCHANGED <<stored, result, classified, mapping, measured, ai_classified>>

\* mutant: every failure is reported as an unexpected error
OutcomeKind_Unexpected(outcome) == "unexpected"

OutcomeKind(outcome) ==
  CASE outcome = "title_required" -> "title_required"
    [] outcome = "map_failed" -> "map_failed"
    [] outcome = "sheet_not_found" -> "sheet_not_found"
    [] OTHER -> "unexpected"

\* one iteration of "for i, data in enumerate(data_list)"
bulk_add_data_record(data) ==
  /\ UNCHANGED <<writers, looked_up>>
  /\ pc = "loop"
  /\ i < list_len
  /\ data_list' = Append(data_list, data)
  /\ \E p \in {ProcessRecord(book, data)} :
        /\ cur' = Locals(p, data, book)
        /\ book' = p.book
        /\ IF p.outcome = "written"
             THEN /\ success_count' = success_count + 1
                  /\ UNCHANGED <<failure_count, error_messages>>
             ELSE /\ failure_count' = failure_count + 1
                  /\ error_messages' =
                       Append(error_messages, Msg(i + 1, OutcomeKind(p.outcome)))
                  /\ UNCHANGED success_count
  /\ i' = i + 1
  /\ used' = used + 1
  /\ UNCHANGED <<stored, pc, list_len, result, classified, mapping, opens,
                 saves, measured, ai_classified>>

\* mutant: the workbook is saved also when no record succeeded
SaveNeeded_Always(count) == TRUE

\* "if success_count > 0" before book.save
SaveNeeded(count) == count > 0

\* after the loop: the save when success_count > 0 (save_ok = FALSE: it
\* raises), the outer except clause, and the return
bulk_add_data_finish(save_ok) ==
  /\ UNCHANGED <<writers, looked_up>>
  /\ pc = "loop"
  /\ i = list_len
  /\ pc' = "bulk_done"
  /\ saves' = IF SaveNeeded(success_count) THEN saves + 1 ELSE saves
  /\ IF SaveNeeded(success_count) /\ ~save_ok
       THEN /\ error_messages' = Append(error_messages, Msg(0, "critical"))
            /\ failure_count' = failure_count + list_len
            /\ success_count' = 0
            /\ UNCHANGED stored
       ELSE /\ stored' = IF SaveNeeded(success_count) THEN Saved(book) ELSE stored
            /\ UNCHANGED <<success_count, failure_count, error_messages>>
  /\ UNCHANGED <<book, list_len, data_list, i, cur, result, used, classified,
                 mapping, opens, measured, ai_classified>>

\* add_data_to_excel(data).  storage is what the call meets at the file:
\* "missing" (os.path.exists is false), "open_fails" (load_workbook
\* raises), "save_fails" (book.save raises) or "ok".
Storage == {"missing", "open_fails", "save_fails", "ok"}

add_data_to_excel(data, storage) ==
  /\ UNCHANGED <<writers, looked_up>>
  /\ pc \in {"idle", "bulk_done", "add_done"}
  /\ used < MaxRecords
  /\ used' = used + 1
  /\ pc' = "add_done"
  /\ \E p \in {ProcessRecord(stored, data)} :
        IF storage = "missing"
          THEN /\ result' = [ok |-> FALSE, msg |-> "file_not_found"]
               /\ cur' = NoCur
               /\ book' = NoBook
               /\ UNCHANGED stored
        ELSE IF p.outcome \in {"title_required", "classify_raised", "map_failed"}
          THEN /\ result' = [ok |-> FALSE,
                             msg |-> IF p.outcome = "classify_raised"
                                       THEN "error" ELSE p.outcome]
               /\ cur' = Locals(p, data, stored)
               /\ book' = NoBook
               /\ UNCHANGED stored
        ELSE IF storage = "open_fails"
          THEN /\ result' = [ok |-> FALSE, msg |-> "error"]
               /\ cur' = [Locals(p, data, stored) EXCEPT
                            !.outcome = "open_raised", !.row_data = << >>,
                            !.target_row = NoRow, !.ws_before = << >>]
               /\ book' = NoBook
               /\ UNCHANGED stored
        ELSE IF p.outcome # "written"
          THEN /\ result' = [ok |-> FALSE,
                             msg |-> IF p.outcome = "write_raised"
                                       THEN "error" ELSE p.outcome]
               /\ cur' = Locals(p, data, stored)
               /\ book' = p.book
               /\ UNCHANGED stored
        ELSE IF storage = "save_fails"
          THEN /\ result' = [ok |-> FALSE, msg |-> "error"]
               /\ cur' = [Locals(p, data, stored) EXCEPT !.outcome = "save_raised"]
               /\ book' = p.book
               /\ UNCHANGED stored
        ELSE /\ result' = [ok |-> TRUE, msg |-> "added"]
             /\ cur' = Locals(p, data, stored)
             /\ book' = p.book
             /\ stored' = Saved(p.book)
  /\ UNCHANGED <<list_len, data_list, i, success_count, failure_count,
                 error_messages, classified, mapping, opens, saves, measured,
                 ai_classified>>

\* The response of the route add_products_bulk (routes/excel_routes.py) to
\* the return value of bulk_add_data: always 'success': True with the
\* summary; 'errors' is None for an empty list of messages.
add_products_bulk ==
  [success |-> TRUE,
   total_processed |-> list_len,
   successful |-> success_count,
   failed |-> failure_count,
   errors |-> IF error_messages = << >> THEN None ELSE error_messages]

Next ==
  \/ \E len \in 0..MaxRecords, open_ok \in BOOLEAN : bulk_add_data_start(len, open_ok)
  \/ \E data \in Records : bulk_add_data_record(data)
  \/ \E save_ok \in BOOLEAN : bulk_add_data_finish(save_ok)
  \/ \E data \in Records, storage \in Storage : add_data_to_excel(data, storage)

Spec == Init /\ [][Next]_vars

----------------------------------------------------------------------------
\* Two calls of a writer on the same file (the routes share one
\* ExcelDataService, and nothing locks the file).  A call is split where it
\* touches the file: load_workbook, and book.save.  kind is "add" for
\* add_data_to_excel(data) and "bulk" for bulk_add_data([data]); storage
\* does not fail here.
Writers == {1, 2}
WriterKinds == {"add", "bulk"}

SavesDone == Cardinality({w \in Writers : writers[w].save_no > 0})

\* the call up to its save: the checks, load_workbook, and the row written
\* into the loaded workbook; a call whose record fails ends here
writer_load(w, kind, data) ==
  /\ writers[w].stage = "idle"
  /\ \E p \in {ProcessRecord(stored, data)} :
        writers' = [writers EXCEPT ![w] =
          [stage |-> IF p.outcome = "written" THEN "loaded" ELSE "done",
           kind |-> kind, data |-> data,
           book |-> IF kind = "add" /\ p.outcome \in
                         {"title_required", "classify_raised", "map_failed"}
                      THEN NoBook ELSE p.book,
           target_sheet |-> p.target_sheet, target_row |-> p.target_row,
           row_data |-> p.row_data, ok |-> FALSE,
           saves_at_load |-> SavesDone, save_no |-> 0]]
  /\ UNCHANGED <<stored, book, pc, list_len, data_list, i, success_count,
                 failure_count, error_messages, cur, result, used, classified,
                 mapping, opens, saves, measured, ai_classified, looked_up>>

\* book.save(self.excel_file_path) and the successful return
writer_save(w) ==
  /\ writers[w].stage = "loaded"
  /\ stored' = Saved(writers[w].book)
  /\ writers' = [writers EXCEPT ![w].stage = "done", ![w].ok = TRUE,
                                ![w].save_no = SavesDone + 1]
  /\ UNCHANGED <<book, pc, list_len, data_list, i, success_count,
                 failure_count, error_messages, cur, result, used, classified,
                 mapping, opens, saves, measured, ai_classified, looked_up>>

NextRace ==
  \/ \E w \in Writers, kind \in WriterKinds, data \in Records :
        writer_load(w, kind, data)
  \/ \E w \in Writers : writer_save(w)

SpecRace == Init /\ [][NextRace]_vars

----------------------------------------------------------------------------
\* The classifier on its own: classify_product_category applied to titles
\* and hint records.
Belt == Str(<<"be", "ru", "to">>)
ClassifyTitles ==
  { Shirt, Denim, Skirt, Belt, FleeceBlouson,
    Str(<<"ni", "xtsu", "to", "k_bou">>),
    Str(<<"pa", "n", "tsu", "su", "-", "tsu">>),
    Str(<<"shi", "xya", "tsu", "wa", "n", "pi", "-", "su">>),
    Str(<<"be", "ru", "to", "k_tsuki", "su", "ka", "-", "to">>),
    Str(<<"lat_T", "shi", "xya", "tsu">>),
    Str(<<"ne", "ku", "ta", "i">>),
    Str(<<"sa", "n", "gu", "ra", "su">>),
    Str(<<"su", "-", "tsu">>),
    Str(<<"k_sai", "k_fu">>),
    Str(<<"sp">>) }

ClassifyHints == { EmptyStr, Shirt, Skirt, Belt, Num(0), Num(5) }

ClassifyData ==
  { EmptyDict }
  \cup { "mono" :> h : h \in ClassifyHints }
  \cup { "product_type" :> h : h \in ClassifyHints }
  \cup { "mono" :> EmptyStr @@ "product_type" :> h : h \in ClassifyHints }
  \cup { "mono" :> Belt @@ "product_type" :> Shirt }

InitPure ==
  /\ stored = NoBook
  /\ book = NoBook
  /\ pc = "idle"
  /\ list_len = 0
  /\ data_list = << >>
  /\ i = 0
  /\ success_count = 0
  /\ failure_count = 0
  /\ error_messages = << >>
  /\ cur = NoCur
  /\ result = NoResult
  /\ used = 0
  /\ classified = NoClassified
  /\ mapping = NoMapping
  /\ opens = 0
  /\ saves = 0
  /\ measured = NoMeasured
  /\ ai_classified = NoAiClassified
  /\ writers = NoWriters
  /\ looked_up = NoLookedUp

Classify(title, product_data) ==
  /\ UNCHANGED <<writers, looked_up>>
  /\ classified = NoClassified
  /\ classified' = [title |-> title, product_data |-> product_data,
                    result |-> classify_product_category(title, product_data)]
  /\ UNCHANGED <<stored, book, pc, list_len, data_list, i, success_count,
                 failure_count, error_messages, cur, result, used, mapping,
                 opens, saves, measured, ai_classified>>

NextClassify ==
  \E title \in ClassifyTitles, product_data \in ClassifyData :
     Classify(title, product_data)

SpecClassify == InitPure /\ [][NextClassify]_vars

----------------------------------------------------------------------------
\* The field mapper on its own: map_data_to_sheet_headers applied to
\* records over each column's name and aliases, and to records with keys
\* of no column, for the sixteen sheets and an unregistered one.
MapValues == { None, Str(<<"lat_a">>), Str(<<"lat_b">>) }

FuncsOn(keys, vals) == UNION { [K -> vals] : K \in SUBSET keys }

ColumnKeys(h) == {h} \cup { field_mappings[h][a] : a \in 1..Len(field_mappings[h]) }

ColumnRecords ==
  UNION { FuncsOn(ColumnKeys(Schema[c]), MapValues) : c \in 1..Len(Schema) }
OtherRecords == FuncsOn({"foo", "saisun2", "measurement2"}, MapValues)

MapInputs ==
  (ColumnRecords \X {"toppusu", "sangurasu", "unknown"})
  \cup (OtherRecords \X (SheetNames \cup {"unknown"}))

Map(data, sheet_name) ==
  /\ UNCHANGED <<writers, looked_up>>
  /\ mapping = NoMapping
  /\ mapping' = [data |-> data, sheet_name |-> sheet_name,
                 result |-> map_data_to_sheet_headers(data, sheet_name)]
  /\ UNCHANGED <<stored, book, pc, list_len, data_list, i, success_count,
                 failure_count, error_messages, cur, result, used, classified,
                 opens, saves, measured, ai_classified>>

NextMap == \E in \in MapInputs : Map(in[1], in[2])

SpecMap == InitPure /\ [][NextMap]_vars

----------------------------------------------------------------------------
\* generate_measurement_text on its own: one call on an input record.

MeasureValues == {None, EmptyStr, Num(0), Num(58), Str(<<"d6", "d0">>)}

MeasureRecords ==
  FuncsOn({"kitake", "mihaba"}, MeasureValues)
  \cup FuncsOn({"mihaba"}, MeasureValues)
  \cup FuncsOn({"soutake", "uesuto"}, MeasureValues)
  \cup FuncsOn({"_katahaba", "katahaba"}, {None, Num(0), Num(40)})
  \cup { "garment_length" :> Num(66),
         "waist" :> Num(70) @@ "soutake" :> Num(80) }
  \cup {EmptyDict}

MeasureSheets == {"toppusu", "pantsu", "sukaato", "wanpiisu", "kutsu"}

Measure(data, sheet_name) ==
  /\ UNCHANGED <<writers, looked_up>>
  /\ measured = NoMeasured
  /\ measured' = [data |-> data, sheet_name |-> sheet_name,
                  result |-> generate_measurement_text(data, sheet_name)]
  /\ UNCHANGED <<stored, book, pc, list_len, data_list, i, success_count,
                 failure_count, error_messages, cur, result, used, classified,
                 mapping, opens, saves, ai_classified>>

NextMeasure ==
  \E data \in MeasureRecords, sheet_name \in MeasureSheets :
     Measure(data, sheet_name)

SpecMeasure == InitPure /\ [][NextMeasure]_vars

----------------------------------------------------------------------------
\* classify_product_with_ai of the route export_to_excel
\* (routes/excel_routes.py): the sheet an AI answer names, or toppusu.

\* list(SHEET_HEADERS.keys()) of the route, each name with its spelling
valid_sheets ==
  <<
     [name |-> "toppusu", text |-> <<"to", "xtsu", "pu", "su">>],
     [name |-> "pantsu", text |-> <<"pa", "n", "tsu">>],
     [name |-> "sukaato", text |-> <<"su", "ka", "-", "to">>],
     [name |-> "wanpiisu", text |-> <<"wa", "n", "pi", "-", "su">>],
     [name |-> "ooruinwan", text |-> <<"o", "-", "ru", "i", "n", "wa", "n">>],
     [name |-> "sukaatosuutsu", text |-> <<"su", "ka", "-", "to", "su", "-", "tsu">>],
     [name |-> "pantsusuutsu", text |-> <<"pa", "n", "tsu", "su", "-", "tsu">>],
     [name |-> "ansanburu", text |-> <<"a", "n", "sa", "n", "bu", "ru">>],
     [name |-> "kutsu", text |-> <<"k_kutsu">>],
     [name |-> "buutsu", text |-> <<"bu", "-", "tsu">>],
     [name |-> "beruto", text |-> <<"be", "ru", "to">>],
     [name |-> "nekutai_tateyoko", text |-> <<"ne", "ku", "ta", "i", "k_tate", "k_yoko">>],
     [name |-> "boushi", text |-> <<"k_bou", "k_ko">>],
     [name |-> "baggu", text |-> <<"ba", "xtsu", "gu">>],
     [name |-> "nekkuresu", text |-> <<"ne", "xtsu", "ku", "re", "su">>],
     [name |-> "sangurasu", text |-> <<"sa", "n", "gu", "ra", "su">>] >>

\* t[j..] starts with the text p
StartsWith(t, j, p) ==
  /\ j + Len(p) - 1 <= Len(t)
  /\ \A x \in 1..Len(p) : t[j + x - 1] = p[x]

\* "p in t" for two str
Contains(t, p) == \E j \in 1..(Len(t) + 1) : StartsWith(t, j, p)

\* t.replace(p, '')
RECURSIVE Remove(_, _)
Remove(t, p) ==
  IF t = << >> THEN << >>
  ELSE IF StartsWith(t, 1, p) THEN Remove(SubSeq(t, Len(p) + 1, Len(t)), p)
  ELSE << t[1] >> \o Remove(Tail(t), p)

\* t.strip()
RECURSIVE Strip(_)
Strip(t) ==
  IF t = << >> THEN t
  ELSE IF t[1] \in Whitespace THEN Strip(Tail(t))
  ELSE IF t[Len(t)] \in Whitespace THEN Strip(SubSeq(t, 1, Len(t) - 1))
  ELSE t

\* content.strip().replace('shi-to', '').replace(':', '').strip()
CleanAnswer(content) ==
  Strip(Remove(Remove(Strip(content), <<"shi", "-", "to">>), <<"colon">>))

\* "for sheet_name in valid_sheets: if sheet_name in ai_classification";
\* "" when the loop ends without a return
RECURSIVE FirstSheetIn(_, _)
FirstSheetIn(c, text) ==
  IF c > Len(valid_sheets) THEN ""
  ELSE IF Contains(text, valid_sheets[c].text) THEN valid_sheets[c].name
  ELSE FirstSheetIn(c + 1, text)

\* What the call to the AI service comes to: no API key, an exception
\* (timeout, connection error, malformed body), a status other than 200,
\* or an answer with its content.
AiFailures ==
  { [kind |-> "no_key", content |-> << >>],
    [kind |-> "exception", content |-> << >>],
    [kind |-> "status", content |-> << >>] }

classify_product_with_ai(product_info, ai) ==
  IF ai.kind = "no_key" THEN "toppusu"
  ELSE IF ai.kind = "exception" THEN "toppusu"
  ELSE IF ai.kind = "status" THEN "toppusu"
  ELSE LET ai_classification == CleanAnswer(ai.content)
           exact == FirstSheetIn(1, ai_classification)
           \* sheet_name.split() is [sheet_name]: the same test again
           partial == FirstSheetIn(1, ai_classification)
       IN IF exact # "" THEN exact
          ELSE IF partial # "" THEN partial
          ELSE "toppusu"

\* Inputs: the AI's answers and the products
AiAnswers ==
  { <<"pa", "n", "tsu">>,
    <<"sp", "to", "xtsu", "pu", "su", "nl">>,
    <<"su", "ka", "-", "to", "su", "-", "tsu">>,
    <<"be", "ru", "to", "shi", "-", "to">>,
    <<"shi", "-", "to", "colon", "sp", "ba", "xtsu", "gu">>,
    <<"lat_u", "lat_n", "lat_k", "lat_n", "lat_o", "lat_w", "lat_n">>,
    << >> }

AiOutcomes == AiFailures \cup { [kind |-> "answer", content |-> a] : a \in AiAnswers }

AiProducts ==
  { "taitoru" :> t : t \in ClassifyTitles }
  \cup { "taitoru" :> Shirt @@ "mono" :> Skirt,
         "taitoru" :> EmptyStr @@ "title" :> Denim }

ClassifyWithAi(product_info, ai) ==
  /\ UNCHANGED <<writers, looked_up>>
  /\ ai_classified = NoAiClassified
  /\ ai_classified' = [product_info |-> product_info, ai |-> ai,
                       result |-> classify_product_with_ai(product_info, ai)]
  /\ UNCHANGED <<stored, book, pc, list_len, data_list, i, success_count,
                 failure_count, error_messages, cur, result, used, classified,
                 mapping, opens, saves, measured>>

NextAi ==
  \E product_info \in AiProducts, ai \in AiOutcomes :
     ClassifyWithAi(product_info, ai)

SpecAi == InitPure /\ [][NextAi]_vars

----------------------------------------------------------------------------
\* Category-number lookup (services/category_lookup_service.py) and the
\* step of ExcelCreatorService.add_data_to_excel_file that stores it.

\* self.category_data: the rows of category.xlsx, each with its
\* category_number and its searchable text (main, sub, item, specific
\* type and brand joined by spaces), or NoTable when the file did not load
NoTable == << >>
CategoryTable ==
  << [category_number |-> <<"2", "0", "8", "4", "0", "3", "7", "5", "5", "4">>,
      text |-> <<"to", "xtsu", "pu", "su", "sp", "shi", "xya", "tsu">>],
     [category_number |-> <<"2", "0", "8", "4", "0", "0", "0", "0", "0", "1">>,
      text |-> <<"pa", "n", "tsu", "sp", "de", "ni", "mu">>],
     [category_number |-> <<"2", "0", "8", "4", "0", "0", "0", "0", "0", "2">>,
      text |-> <<"shi", "xya", "tsu", "sp", "de", "ni", "mu", "sp",
                 "lat_A", "lat_c", "lat_m", "lat_e">>],
     [category_number |-> <<"1", "2", "3">>,
      text |-> <<"be", "ru", "to">>] >>

IsDigit(c) == \E d \in 1..Len(Digit) : Digit[d] = c

\* the digits of t from position j on: (\d+) or (\d*)
RECURSIVE DigitRun(_, _)
DigitRun(t, j) ==
  IF j <= Len(t) /\ IsDigit(t[j]) THEN << t[j] >> \o DigitRun(t, j + 1)
  ELSE << >>

\* the first position from j on that is not whitespace: \s*
RECURSIVE SkipSpace(_, _)
SkipSpace(t, j) ==
  IF j <= Len(t) /\ t[j] \in Whitespace THEN SkipSpace(t, j + 1) ELSE j

CategoryLabel == <<"ka", "te", "go", "ri", "k_ban", "k_gou">>

\* re.search(r'kategori-bangou[:]\s*(\d+)', t) tried at position j
LabelledAt(t, j) ==
  IF /\ StartsWith(t, j, CategoryLabel)
     /\ j + Len(CategoryLabel) <= Len(t)
     /\ t[j + Len(CategoryLabel)] \in {"f_colon", "colon"}
    THEN DigitRun(t, SkipSpace(t, j + Len(CategoryLabel) + 1))
    ELSE << >>

\* _extract_category_number: the first run of ten digits, else the digits
\* after the label, else None (the third pattern matches nothing the first
\* one does not)
_extract_category_number(ai_response) ==
  LET tens == {j \in 1..Len(ai_response) : Len(DigitRun(ai_response, j)) >= 10}
      labelled == {j \in 1..Len(ai_response) : LabelledAt(ai_response, j) # << >>}
  IN IF tens # {}
       THEN Str(SubSeq(ai_response, CHOOSE j \in tens : \A x \in tens : j <= x,
                       (CHOOSE j \in tens : \A x \in tens : j <= x) + 9))
     ELSE IF labelled # {}
       THEN Str(LabelledAt(ai_response,
                           CHOOSE j \in labelled : \A x \in labelled : j <= x))
     ELSE None

\* get_category_by_number(category_number) is not None
get_category_by_number(table, number) ==
  \E r \in 1..Len(table) : table[r].category_number = number.s

\* title.split()
RECURSIVE Split(_)
Split(t) ==
  IF t = << >> THEN << >>
  ELSE IF t[1] \in Whitespace THEN Split(Tail(t))
  ELSE LET stop == IF \E j \in 1..Len(t) : t[j] \in Whitespace
                     THEN (CHOOSE j \in 1..Len(t) :
                             /\ t[j] \in Whitespace
                             /\ \A x \in 1..(j - 1) : t[x] \notin Whitespace)
                     ELSE Len(t) + 1
       IN << SubSeq(t, 1, stop - 1) >> \o Split(SubSeq(t, stop, Len(t)))

\* match_score of one row: the keywords found in its searchable text
MatchScore(row, keywords) ==
  Cardinality({q \in 1..Len(keywords) :
                 Contains(Lower(row.text), Lower(keywords[q]))})

\* search_categories_by_keywords(keywords)[0]['category_number'], or None:
\* the rows with a keyword, sorted by score (a stable sort), the first one
BestMatch(table, keywords) ==
  LET hits == {r \in 1..Len(table) : MatchScore(table[r], keywords) > 0}
  IN IF hits = {} THEN None
     ELSE Str(table[CHOOSE r \in hits :
                      \A x \in hits :
                         \/ MatchScore(table[r], keywords) > MatchScore(table[x], keywords)
                         \/ /\ MatchScore(table[r], keywords) = MatchScore(table[x], keywords)
                            /\ r <= x].category_number)

Unknown == Str(<<"k_fu_not", "k_mei">>)

\* _fallback_category_search: the keywords are the words of the title, the
\* brand and the product type; a value that is not a str makes split or
\* lower raise, which the except clauses turn into None
_fallback_category_search(table, product_info) ==
  LET title == Or(Get(product_info, "title", EmptyStr),
                  Get(product_info, "taitoru", EmptyStr))
      brand == Or(Get(product_info, "brand", EmptyStr),
                  Get(product_info, "burando", EmptyStr))
      product_type == Or(Get(product_info, "product_type", EmptyStr),
                         Get(product_info, "mono", EmptyStr))
      raises == \/ Truthy(title) /\ title.k # "str"
                \/ Truthy(brand) /\ brand.k # "str"
                \/ Truthy(product_type) /\ product_type.k # "str"
      keywords ==
        (IF Truthy(title) THEN Split(title.s) ELSE << >>)
        \o (IF Truthy(brand) /\ brand # Unknown THEN << brand.s >> ELSE << >>)
        \o (IF Truthy(product_type) /\ product_type # Unknown
              THEN << product_type.s >> ELSE << >>)
  IN IF raises THEN None ELSE BestMatch(table, keywords)

\* mutant: no keyword search when the AI's number is not in the table
FallbackNeeded_NotForUnknownNumber(table, ai, number) ==
  ai.kind # "answer" \/ number = None

\* the paths of get_category_number_with_ai that end in the fallback
FallbackNeeded(table, ai, number) ==
  \/ ai.kind # "answer"
  \/ number = None
  \/ ~get_category_by_number(table, number)

get_category_number_with_ai(table, product_info, ai) ==
  LET number == IF ai.kind = "answer"
                  THEN _extract_category_number(Strip(ai.content)) ELSE None
  IN IF FallbackNeeded(table, ai, number)
       THEN _fallback_category_search(table, product_info)
       ELSE number

\* One record of ExcelCreatorService.add_data_to_excel_file: the title
\* check, classify, the category number stored under "kategori" (or ''),
\* map, the measurement text, and the row written after the last row of
\* the sheet create_excel_file_with_structure made (its header row only).
CreatorRecord(table, data, ai) ==
  LET title == Or(Get(data, "taitoru", EmptyStr), Get(data, "title", EmptyStr))
      sheet == classify_product_category(title, data)
      number == get_category_number_with_ai(table, data, ai)
      kategori == IF Truthy(number) THEN number ELSE EmptyStr
      q == PrepareSheet(DictSet(data, "kategori", kategori), sheet)
      ws == << HeaderRow(SHEET_HEADERS[q.target_sheet]) >>
      rd == RowData(SheetHeaders(ws), q.mapped_data)
      w == WriteCells(ws, max_row(ws) + 1, rd)
      none == [table |-> table, product_info |-> data, ai |-> ai,
               category_number |-> None, kategori |-> None,
               outcome |-> "title_required", target_sheet |-> "",
               row |-> << >>]
  IN IF ~Truthy(title) THEN none
     ELSE IF sheet = AttributeError
       THEN [none EXCEPT !.outcome = "unexpected"]
     ELSE IF q.outcome # "ready"
       THEN [none EXCEPT !.category_number = number, !.kategori = kategori,
                         !.outcome = q.outcome, !.target_sheet = sheet]
     ELSE [none EXCEPT !.category_number = number, !.kategori = kategori,
                       !.outcome = IF w.raised THEN "unexpected" ELSE "written",
                       !.target_sheet = sheet, !.row = w.ws[2]]

\* Inputs: the AI's answers, the products and the reference tables
LookupAnswers ==
  { <<"2", "0", "8", "4", "0", "3", "7", "5", "5", "4">>,
    <<"sp">> \o <<"2", "0", "8", "4", "0", "0", "0", "0", "0", "1">> \o <<"nl">>,
    <<"9", "9", "9", "9", "9", "9", "9", "9", "9", "9">>,
    <<"2", "0", "8", "4", "0", "0", "0", "0", "0", "2", "9">>,
    <<"k_fu_not", "k_mei">>,
    CategoryLabel \o <<"colon", "sp", "1", "2", "3">>,
    CategoryLabel \o <<"f_colon", "7", "7">> }

LookupOutcomes ==
  AiFailures \cup { [kind |-> "answer", content |-> a] : a \in LookupAnswers }

LookupProducts ==
  { EmptyDict,
    "taitoru" :> Shirt,
    "title" :> Denim,
    "taitoru" :> Skirt,
    "taitoru" :> FleeceBlouson,
    "taitoru" :> Str(<<"de", "ni", "mu", "sp", "shi", "xya", "tsu">>),
    "taitoru" :> Skirt @@ "burando" :> Str(<<"lat_A", "lat_C", "lat_M", "lat_E">>),
    "taitoru" :> Skirt @@ "mono" :> Belt @@ "burando" :> Unknown,
    "taitoru" :> Shirt @@ "burando" :> Num(5),
    "taitoru" :> Shirt @@ "iro" :> List }

LookupTables == {CategoryTable, NoTable}

Lookup(table, data, ai) ==
  /\ looked_up = NoLookedUp
  /\ \E p \in {CreatorRecord(table, data, ai)} : looked_up' = p
  /\ UNCHANGED <<stored, book, pc, list_len, data_list, i, success_count,
                 failure_count, error_messages, cur, result, used, classified,
                 mapping, opens, saves, measured, ai_classified, writers>>

NextLookup ==
  \E table \in LookupTables, data \in LookupProducts, ai \in LookupOutcomes :
     Lookup(table, data, ai)

SpecLookup == InitPure /\ [][NextLookup]_vars


----------------------------------------------------------------------------
\* Properties

HeaderSet(sheet_name) ==
  { SHEET_HEADERS[sheet_name][c] : c \in 1..Len(SHEET_HEADERS[sheet_name]) }

\* the record has neither the column name nor one of its aliases as a key
Unmatched(h, data) ==
  /\ h \notin DOMAIN data
  /\ h \in DOMAIN field_mappings =>
       \A a \in 1..Len(field_mappings[h]) : field_mappings[h][a] \notin DOMAIN data

\* a cell that is null or blank after trimming
BlankCell(v) ==
  v.k = "none" \/ (v.k = "str" /\ \A j \in 1..Len(v.s) : v.s[j] \in Whitespace)

\* the first W cells of row q of ws are blank
FirstCellsBlank(ws, q, W) ==
  \A c \in 1..W : c > Len(ws[q]) \/ BlankCell(ws[q][c])

\* the last record went through the row writer, and the sheet it wrote
Wrote ==
  /\ cur.outcome = "written"
  /\ pc \in {"loop", "bulk_done"} \/ (pc = "add_done" /\ result.ok)
WrittenSheet == book[cur.target_sheet]

\* C1: when bulk_add_data has returned, success_count + failure_count is
\* the number of input records and there is one error message per failure,
\* also when opening or saving the workbook failed.
C1_BatchAccounting ==
  pc = "bulk_done" =>
    /\ success_count + failure_count = list_len
    /\ Len(error_messages) = failure_count

\* C2: the target row of a write is the lowest row >= 2 whose first W
\* cells are blank (W = the number of values written), and max_row + 1
\* when rows 2..max_row have none.
C2_RowPlacement ==
  cur.target_row # NoRow =>
    LET ws == cur.ws_before
        W == Len(cur.row_data)
        r == cur.target_row
    IN /\ r >= 2
       /\ r <= max_row(ws) + 1
       /\ \A q \in 2..(r - 1) : ~FirstCellsBlank(ws, q, W)
       /\ r <= max_row(ws) => FirstCellsBlank(ws, r, W)

\* C2 witness: data rows [full, full, blank, full]; the write went to the
\* blank row 4, not to row 6.
C2_Witness ==
  /\ Wrote
  /\ max_row(cur.ws_before) = 5
  /\ ~FirstCellsBlank(cur.ws_before, 5, Len(cur.row_data))
  /\ cur.target_row = 4
  /\ WrittenSheet[4] = cur.row_data

\* C3: for each of the sixteen sheets and any record the mapper returns a
\* mapping whose keys are exactly the sheet's 35 headers.
C3_SchemaCompleteness ==
  /\ Cardinality(SheetNames) = 16
  /\ mapping.sheet_name \in SheetNames =>
       /\ DOMAIN mapping.result = HeaderSet(mapping.sheet_name)
       /\ Cardinality(DOMAIN mapping.result) = 35

\* C3 witness: the empty record mapped for the last sheet has all 35 keys.
C3_Witness ==
  /\ mapping.sheet_name = "sangurasu"
  /\ mapping.data = EmptyDict
  /\ Cardinality(DOMAIN mapping.result) = 35

\* C4: the mapped row handed to the row writer, after the measurement text
\* was merged in, has exactly the target sheet's columns as keys.
C4_EnrichedKeySet ==
  DOMAIN cur.mapped_data # {} =>
    DOMAIN cur.mapped_data = HeaderSet(cur.target_sheet)

\* the search string of the classifier: the lowercased title, then a
\* space and the lowercased hint when a hint is present
HintOf(product_data) ==
  IF "mono" \in DOMAIN product_data /\ Truthy(product_data["mono"])
    THEN product_data["mono"]
  ELSE IF "product_type" \in DOMAIN product_data
    THEN product_data["product_type"]
  ELSE EmptyStr
TextOf(title, product_data) ==
  IF Truthy(HintOf(product_data))
    THEN Lower(title.s) \o <<"sp">> \o Lower(HintOf(product_data).s)
    ELSE Lower(title.s)

\* some keyword of category number c is found in text
KeywordFound(c, text) ==
  \E q \in 1..Len(category_keywords[c].keywords) :
     re_search(category_keywords[c].keywords[q], text)

\* C5: a returned category is the first one, in registration order, with a
\* keyword found in the search string, wherever and how often later
\* categories match.
C5_FirstRegisteredWins ==
  classified.result \in SheetNames =>
    LET text == TextOf(classified.title, classified.product_data)
    IN \A c \in 1..Len(category_keywords) :
         (KeywordFound(c, text) /\ \A d \in 1..(c - 1) : ~KeywordFound(d, text))
           => classified.result = category_keywords[c].category

\* C5 witness: the title matches only a beruto keyword (category 11), the
\* hint a toppusu keyword (category 1); the result is toppusu.
C5_Witness ==
  /\ classified.title = Belt
  /\ "mono" \in DOMAIN classified.product_data
  /\ classified.product_data["mono"] = Shirt
  /\ KeywordFound(11, Lower(Belt.s))
  /\ ~KeywordFound(1, Lower(Belt.s))
  /\ classified.result = "toppusu"

\* C6: every call of the classifier returns one of the sixteen categories,
\* the default one when no keyword is found.
C6_AlwaysACategory ==
  classified # NoClassified =>
    /\ classified.result \in SheetNames
    /\ (\A c \in 1..Len(category_keywords) :
          ~KeywordFound(c, TextOf(classified.title, classified.product_data)))
         => classified.result = default_sheet

\* C7: per column, the column's own key wins (also with a null value);
\* otherwise the first alias in listed order that is a key; otherwise null.
C7_Precedence ==
  \A h \in DOMAIN mapping.result :
    LET data == mapping.data
        aliases == field_mappings[h]
        present == { a \in 1..Len(aliases) : aliases[a] \in DOMAIN data }
    IN IF h \in DOMAIN data THEN mapping.result[h] = data[h]
       ELSE IF present # {}
         THEN \E a \in present :
                /\ \A b \in present : a <= b
                /\ mapping.result[h] = data[aliases[a]]
       ELSE mapping.result[h] = None

\* C7 witness: the column key carries null, its aliases a and b; null wins.
C7_Witness ==
  /\ mapping.sheet_name = "toppusu"
  /\ DOMAIN mapping.data = {"kanri_bangou", "management_number", "id"}
  /\ mapping.data["kanri_bangou"] = None
  /\ mapping.data["management_number"] = Str(<<"lat_a">>)
  /\ mapping.data["id"] = Str(<<"lat_b">>)
  /\ mapping.result["kanri_bangou"] = None

\* C8: a column the record has no key for is null in the mapped row handed
\* to the writer (only saisun1 may hold the measurement text instead, over
\* the mapper's null), and is '' in row_data and in the written cell.
C8_NullUntilWrite ==
  DOMAIN cur.mapped_data # {} =>
    LET raw == map_data_to_sheet_headers(cur.data, cur.target_sheet)
        hdrs == SheetHeaders(cur.ws_before)
    IN /\ \A h \in HeaderSet(cur.target_sheet) :
            Unmatched(h, cur.data) =>
              \/ cur.mapped_data[h] = None
              \/ /\ h = "saisun1"
                 /\ cur.measurement_text # << >>
                 /\ cur.mapped_data[h] = Str(cur.measurement_text)
                 /\ raw[h] = None
       /\ Wrote =>
            \A j \in 1..Len(cur.row_data) :
              (/\ hdrs[j] \in HeaderSet(cur.target_sheet)
               /\ Unmatched(hdrs[j], cur.data)
               /\ cur.mapped_data[hdrs[j]] = None)
                => /\ cur.row_data[j] = EmptyStr
                   /\ WrittenSheet[cur.target_row][j] = EmptyStr

\* C8 witness: a written record without a key for iro: null in the mapped
\* row, '' in the written cell of column 9.
C8_Witness ==
  /\ Wrote
  /\ Unmatched("iro", cur.data)
  /\ cur.mapped_data["iro"] = None
  /\ SheetHeaders(cur.ws_before)[9] = "iro"
  /\ WrittenSheet[cur.target_row][9] = EmptyStr

\* C9: with a synthesized measurement text, a non-empty saisun2 supplied by
\* the record is what the mapped row holds under saisun2; without one,
\* saisun2 holds the synthesized text, as saisun1 does.
C9_SecondaryKept ==
  (DOMAIN cur.mapped_data # {} /\ cur.measurement_text # << >>) =>
    LET supplied == IF "saisun2" \in DOMAIN cur.data THEN cur.data["saisun2"]
                    ELSE IF "measurement2" \in DOMAIN cur.data
                      THEN cur.data["measurement2"]
                    ELSE None
    IN /\ cur.mapped_data["saisun1"] = Str(cur.measurement_text)
       /\ "saisun2" \in DOMAIN cur.mapped_data
       /\ cur.mapped_data["saisun2"] =
            IF Truthy(supplied) THEN supplied ELSE Str(cur.measurement_text)

\* C10: no step changes row 1 of a sheet, in the file or in the open
\* workbook, and every target row is >= 2.
C10_HeaderRowProtected ==
  [][ /\ \A s \in DOMAIN stored :
           s \in DOMAIN stored' /\ stored'[s][1] = stored[s][1]
      /\ \A s \in DOMAIN book \cap DOMAIN book' : book'[s][1] = book[s][1]
      /\ \A s \in DOMAIN book' : s \in DOMAIN stored /\ book'[s][1] = stored[s][1]
      /\ cur'.target_row # NoRow => cur'.target_row >= 2 ]_vars

\* C10 witness: a record was written and saved into a sheet that had only
\* its header row; it went to row 2 and row 1 is as before.
C10_Witness ==
  /\ pc = "add_done" /\ result.ok
  /\ max_row(cur.ws_before) = 1
  /\ cur.target_row = 2
  /\ stored[cur.target_sheet][1] = cur.ws_before[1]
  /\ stored[cur.target_sheet][2] # cur.ws_before[1]

\* records the loop of the last bulk_add_data call wrote
WrittenCount ==
  i - Cardinality({j \in 1..Len(error_messages) :
                     error_messages[j].kind # "critical"})

\* C11: in one bulk_add_data call load_workbook is called once, before the
\* first record, and not at all for an empty list; book.save is called only
\* after the last record, once when the loop wrote a record and never when
\* it wrote none.
C11_OpenOnceSaveOnce ==
  [][ /\ opens' # opens => (i' = 0 /\ data_list' = << >>)
      /\ (pc = "loop" /\ i' = i + 1) =>
            (opens = 1 /\ saves = 0 /\ opens' = 1 /\ saves' = 0)
      /\ saves' > saves =>
            (pc = "loop" /\ i = list_len /\ saves = 0 /\ saves' = 1)
      /\ pc' = "bulk_done" =>
            /\ opens' = IF list_len' = 0 THEN 0 ELSE 1
            /\ saves' = IF WrittenCount' > 0 THEN 1 ELSE 0 ]_vars

\* C11 witness: a call with two records, one written, has returned after
\* one load and one save.
C11_Witness ==
  /\ pc = "bulk_done" /\ list_len = 2 /\ i = 2
  /\ success_count = 1 /\ failure_count = 1
  /\ opens = 1 /\ saves = 1

\* the record has no non-empty title under either title key
NoTitle(data) ==
  \A key \in {"taitoru", "title"} :
     key \notin DOMAIN data \/ data[key] \in {None, EmptyStr}

\* a step of the loop of bulk_add_data that processes one record
RecordStep == pc = "loop" /\ i' = i + 1

\* C12: a record of a batch without a non-empty title is counted as one
\* failure with a title-required message for its position; the classifier,
\* the mapper and the writer are not reached (their results do not exist,
\* the open workbook is as before) and the loop goes on.
C12_TitleRequired ==
  [][ (RecordStep /\ NoTitle(cur'.data)) =>
        /\ failure_count' = failure_count + 1
        /\ success_count' = success_count
        /\ error_messages' = Append(error_messages, Msg(i', "title_required"))
        /\ cur'.target_sheet = ""
        /\ cur'.mapped_data = EmptyDict
        /\ cur'.row_data = << >>
        /\ cur'.target_row = NoRow
        /\ book' = book
        /\ pc' = "loop" /\ list_len' = list_len ]_vars

\* C12 witness: the first record of a batch had no title, the second one
\* was written.
C12_Witness ==
  /\ pc = "loop" /\ i = 2
  /\ NoTitle(data_list[1])
  /\ error_messages = << Msg(1, "title_required") >>
  /\ cur.outcome = "written" /\ success_count = 1

\* the last bulk_add_data call met a failure of load_workbook or book.save
StorageFailed ==
  /\ pc = "bulk_done"
  /\ \E j \in 1..Len(error_messages) : error_messages[j].kind = "critical"

\* C13: when load_workbook or book.save fails in a batch, the stored
\* workbook is as before the call's last step, success_count is 0, and what
\* the caller gets is a failure (not a success summary) with exactly one
\* storage-failure message.
C13_StorageFailureFatal ==
  [][ StorageFailed' =>
        /\ stored' = stored
        /\ success_count' = 0
        /\ Cardinality({j \in 1..Len(error_messages') :
                          error_messages'[j].kind = "critical"}) = 1
        /\ add_products_bulk'.success = FALSE ]_vars

\* a record nothing in the loop body fails on, given that its sheet exists:
\* it has a title, a str (or no) type hint and only values a cell can hold
ValidRecord(data) ==
  /\ ~NoTitle(data)
  /\ \A key \in DOMAIN data :
        /\ data[key].k # "list"
        /\ key \in {"taitoru", "title", "mono", "product_type"} =>
             data[key].k \in {"str", "none"}

\* C14: a record whose sheet is missing from the workbook is one failure
\* with a sheet-not-found message for its position, nothing is written for
\* it and the loop goes on; a valid record whose sheet exists is written and
\* counted as a success whatever failed before it in the batch.
C14_SheetNotFound ==
  [][ RecordStep =>
        /\ (cur'.target_sheet \in SheetNames /\ cur'.target_sheet \notin DOMAIN book) =>
              /\ failure_count' = failure_count + 1
              /\ success_count' = success_count
              /\ error_messages' =
                    Append(error_messages, Msg(i', "sheet_not_found"))
              /\ cur'.target_row = NoRow
              /\ book' = book
              /\ pc' = "loop" /\ list_len' = list_len
        /\ (ValidRecord(cur'.data) /\ cur'.target_sheet \in DOMAIN book) =>
              /\ success_count' = success_count + 1
              /\ failure_count' = failure_count
              /\ error_messages' = error_messages
              /\ book'[cur'.target_sheet][cur'.target_row] = cur'.row_data ]_vars

\* C14 witness: the first record's sheet was missing, the second record
\* was written.
C14_Witness ==
  /\ pc = "loop" /\ i = 2
  /\ error_messages = << Msg(1, "sheet_not_found") >>
  /\ failure_count = 1 /\ success_count = 1
  /\ cur.outcome = "written"
  /\ book[cur.target_sheet][cur.target_row] = cur.row_data

\* the record of the end-to-end example and its measurement text
FleeceRecord ==
  "title" :> FleeceBlouson @@ "kitake" :> Num(66) @@ "mihaba" :> Num(58)
FleeceText ==
  <<"k_ki", "k_take", "f_colon", "k_yaku", "6", "6", "lat_c", "lat_m", "f_sp",
    "k_mi", "k_haba", "f_colon", "k_yaku", "5", "8", "lat_c", "lat_m">>

\* C15: the record {title: FleeceBlouson, kitake: 66, mihaba: 58}, once
\* written, went to toppusu; its mapped row has kitake 66, mihaba 58 and
\* the measurement text in saisun1; the written cells hold these and the
\* title, and '' for every other column of the schema; the target row is
\* the first row from 2 whose cells are blank, else max_row + 1.
C15_EndToEnd ==
  (Wrote /\ cur.data = FleeceRecord) =>
    LET hdrs == SheetHeaders(cur.ws_before)
        row == WrittenSheet[cur.target_row]
        r == cur.target_row
        W == Len(cur.row_data)
    IN /\ cur.target_sheet = "toppusu"
       /\ cur.mapped_data["kitake"] = Num(66)
       /\ cur.mapped_data["mihaba"] = Num(58)
       /\ cur.mapped_data["saisun1"] = Str(FleeceText)
       /\ \A j \in 1..Len(hdrs) :
            hdrs[j] \in HeaderSet("toppusu") =>
              row[j] = CASE hdrs[j] = "taitoru" -> FleeceBlouson
                         [] hdrs[j] = "kitake" -> Num(66)
                         [] hdrs[j] = "mihaba" -> Num(58)
                         [] hdrs[j] = "saisun1" -> Str(FleeceText)
                         [] OTHER -> EmptyStr
       /\ r >= 2
       /\ \A q \in 2..(r - 1) : ~FirstCellsBlank(cur.ws_before, q, W)
       /\ r <= max_row(cur.ws_before) => FirstCellsBlank(cur.ws_before, r, W)
       /\ r > max_row(cur.ws_before) => r = max_row(cur.ws_before) + 1

\* C15 witness: add_data_to_excel wrote the record into row 4 of toppusu,
\* the first blank row, with 66 in column 11 and the text in column 23.
C15_Witness ==
  /\ pc = "add_done" /\ result.ok
  /\ cur.data = FleeceRecord
  /\ cur.target_sheet = "toppusu" /\ cur.target_row = 4
  /\ book["toppusu"][4][11] = Num(66)
  /\ book["toppusu"][4][23] = Str(FleeceText)

\* the written row read back as a record: header name -> written value
WrittenRecord ==
  LET hdrs == SheetHeaders(cur.ws_before)
  IN [h \in {hdrs[j] : j \in 1..Len(hdrs)} |->
        cur.row_data[CHOOSE j \in 1..Len(hdrs) : hdrs[j] = h]]

\* C16: for a written record, the classifier applied to the title stored
\* in the written row (with the row's other values as hints) returns the
\* sheet the record was written to.
C16_ReclassifySame ==
  Wrote =>
    classify_product_category(WrittenRecord["taitoru"], WrittenRecord)
      = cur.target_sheet

\* the reasons a message gives for the failure of one record
RecordReasons == {"title_required", "map_failed", "sheet_not_found", "unexpected"}

\* C18: the messages bulk_add_data returns are one per failed record, in
\* input order, each with the 1-based position of its record and the reason
\* of the failure.
C18_ErrorMessages ==
  pc = "bulk_done" =>
    /\ Len(error_messages) = failure_count
    /\ failure_count = list_len - success_count
    /\ \A j \in 1..Len(error_messages) :
          /\ error_messages[j].row \in 1..list_len
          /\ error_messages[j].kind \in RecordReasons
          /\ error_messages[j].row \in 1..Len(data_list) =>
                (error_messages[j].kind = "title_required"
                   <=> NoTitle(data_list[error_messages[j].row]))
    /\ \A j, k \in 1..Len(error_messages) :
          j < k => error_messages[j].row < error_messages[k].row

\* the AI classification is degraded: no key, an exception, an error
\* status, or an answer that names no sheet
AiDegraded(ai) ==
  \/ ai \in AiFailures
  \/ /\ ai.kind = "answer"
     /\ FirstSheetIn(1, CleanAnswer(ai.content)) = ""

\* C17: when the AI classification is degraded the product's category is
\* the one the keyword classifier returns for it.
C17_AiFallbackToKeywords ==
  (ai_classified # NoAiClassified /\ AiDegraded(ai_classified.ai)) =>
    ai_classified.result =
      classify_product_category(
        Or(Get(ai_classified.product_info, "taitoru", EmptyStr),
           Get(ai_classified.product_info, "title", EmptyStr)),
        ai_classified.product_info)

\* a value that is present and non-empty: neither None nor ''
NonEmpty(v) == v # None /\ v # EmptyStr

\* the value of a selected field: the first non-empty one of its keys
SelectedValue(key, data) ==
  IF key = "_katahaba" /\ ~NonEmpty(Get(data, "_katahaba", None))
    THEN Get(data, "katahaba", None)
    ELSE Get(data, key, None)

\* one fragment for every selected field that is present and non-empty
RECURSIVE ExpectedFragments(_, _, _)
ExpectedFragments(fields, f, data) ==
  IF f > Len(fields) THEN << >>
  ELSE LET v == SelectedValue(fields[f][1], data)
       IN (IF NonEmpty(v) THEN << Fragment(fields[f][2], v) >> ELSE << >>)
          \o ExpectedFragments(fields, f + 1, data)

\* C19: the measurement text holds one fragment for every selected field
\* that is present and non-empty in the record, the number 0 included, in
\* the fixed order of the category, joined by a full-width space; for the
\* other categories it is the empty string.
C19_MeasurementText ==
  measured # NoMeasured =>
    measured.result =
      IF measured.sheet_name \in {"toppusu", "pantsu", "sukaato"}
        THEN Join(ExpectedFragments(MeasurementFields(measured.sheet_name), 1,
                                    measured.data))
        ELSE << >>

\* C20: a written row holds, in cell k, the value of column k of the schema
\* of its category, None written as '', and the width of the empty-row scan
\* is the number of columns of the schema, whatever the header row of the
\* sheet holds.
C20_SchemaPositions ==
  Wrote =>
    LET schema == SHEET_HEADERS[cur.target_sheet]
        row == WrittenSheet[cur.target_row]
    IN /\ Len(cur.row_data) = Len(schema)
       /\ \A c \in 1..Len(schema) :
             LET value == Get(cur.mapped_data, schema[c], EmptyStr)
             IN CellValue(WrittenSheet, cur.target_row, c) =
                  IF value = None THEN EmptyStr ELSE value

\* C21: for a sheet name outside the sixteen registered ones the mapper
\* returns the empty mapping, and a writer that gets this mapping fails the
\* record with the mapping-failure message and writes nothing.
C21_MappingFailure ==
  (mapping # NoMapping /\ mapping.sheet_name \notin SheetNames) =>
    /\ mapping.result = EmptyDict
    /\ \A bk \in InitialWorkbooks :
          \E p \in {WriteRecord(bk, PrepareRow(mapping.sheet_name,
                                               mapping.result, << >>))} :
             /\ p.outcome = "map_failed"
             /\ OutcomeKind(p.outcome) = "map_failed"
             /\ p.target_row = NoRow
             /\ p.book = bk

\* C21 witness: a record with data was mapped for an unregistered sheet
C21_Witness ==
  /\ mapping.sheet_name = "unknown"
  /\ DOMAIN mapping.data # {}
  /\ mapping.result = EmptyDict

\* both calls have returned success; First saved before Second
BothOk == \A w \in Writers : writers[w].stage = "done" /\ writers[w].ok
First == CHOOSE w \in Writers : writers[w].save_no = 1
Second == CHOOSE w \in Writers : writers[w].save_no = 2
\* Second loaded the file before First saved it
Overlap == writers[Second].saves_at_load = 0
SameSheet == writers[1].target_sheet = writers[2].target_sheet
\* a row of values as the file holds it after a save
SavedRow(row) == [c \in 1..Len(row) |-> SavedCell(row[c])]
\* the stored workbook holds the record writer w wrote, at its row
Present(w) ==
  /\ writers[w].target_row <= Len(stored[writers[w].target_sheet])
  /\ \A c \in 1..Len(writers[w].row_data) :
        CellValue(stored[writers[w].target_sheet], writers[w].target_row, c)
          = SavedCell(writers[w].row_data[c])

\* C22: when two successful calls overlap (both load before either saves)
\* on one sheet they choose the same row and the stored workbook holds the
\* later saver's record in place of the earlier one's; when they do not
\* overlap, both records are in the stored workbook, at different rows.
C22_NoConcurrencyControl ==
  BothOk =>
    /\ (Overlap /\ SameSheet) =>
          /\ writers[1].target_row = writers[2].target_row
          /\ Present(Second)
          /\ SavedRow(writers[1].row_data) # SavedRow(writers[2].row_data)
                => ~Present(First)
    /\ ~Overlap =>
          /\ Present(First) /\ Present(Second)
          /\ SameSheet => writers[1].target_row # writers[2].target_row

\* the AI named a number that is in the reference table
AiNumber(ai) ==
  IF ai.kind = "answer" THEN _extract_category_number(Strip(ai.content)) ELSE None
AiCodeInTable(table, ai) ==
  /\ AiNumber(ai) # None
  /\ \E r \in 1..Len(table) : Str(table[r].category_number) = AiNumber(ai)

\* the words the keyword search looks for: the words of the title, the
\* brand and the product type
SearchWords(product_info) ==
  LET title == Or(Get(product_info, "title", EmptyStr),
                  Get(product_info, "taitoru", EmptyStr))
      brand == Or(Get(product_info, "brand", EmptyStr),
                  Get(product_info, "burando", EmptyStr))
      product_type == Or(Get(product_info, "product_type", EmptyStr),
                         Get(product_info, "mono", EmptyStr))
  IN { Split(title.s)[q] : q \in 1..Len(Split(title.s)) }
     \cup { v.s : v \in {x \in {brand, product_type} :
                            x.k = "str" /\ x.s # << >> /\ x # Unknown} }

\* the record is fit to be written: it has a title, its title and hint are
\* text, and no value is a list
Writable(data) ==
  /\ Truthy(Or(Get(data, "taitoru", EmptyStr), Get(data, "title", EmptyStr)))
  /\ \A key \in DOMAIN data : data[key].k = "str"

\* C23: when the AI names no number of the reference table, the category
\* number is one the keyword search finds in the table (a row that holds
\* one of the record's words), and when there is none the "kategori" field
\* is ''; in every case a record fit to be written is written, with the
\* number or '' in its "kategori" column.
C23_LookupChain ==
  looked_up.outcome \notin {"none", "title_required"} =>
    /\ AiCodeInTable(looked_up.table, looked_up.ai) =>
          looked_up.category_number = AiNumber(looked_up.ai)
    /\ (~AiCodeInTable(looked_up.table, looked_up.ai)
          /\ looked_up.category_number # None) =>
          \E r \in 1..Len(looked_up.table) :
             /\ Str(looked_up.table[r].category_number) = looked_up.category_number
             /\ \E word \in SearchWords(looked_up.product_info) :
                   Contains(Lower(looked_up.table[r].text), Lower(word))
    /\ (~AiCodeInTable(looked_up.table, looked_up.ai)
          /\ \A key \in DOMAIN looked_up.product_info :
                looked_up.product_info[key].k = "str") =>
          (looked_up.category_number = None
             <=> \A r \in 1..Len(looked_up.table) :
                    \A word \in SearchWords(looked_up.product_info) :
                       ~Contains(Lower(looked_up.table[r].text), Lower(word)))
    /\ looked_up.kategori =
          IF looked_up.category_number = None THEN EmptyStr
          ELSE looked_up.category_number
    /\ Writable(looked_up.product_info) =>
          /\ looked_up.outcome = "written"
          /\ looked_up.row[1] = looked_up.kategori

\* C23 witness: the AI named a number that is not in the table, the
\* keyword search found none either, and the record was written with ''
C23_Witness ==
  /\ looked_up.ai.kind = "answer"
  /\ AiNumber(looked_up.ai) # None
  /\ looked_up.table = CategoryTable
  /\ looked_up.category_number = None
  /\ looked_up.outcome = "written"
  /\ looked_up.row[1] = EmptyStr

\* a step that writes a record successfully right after another record was
\* written successfully: two records of one bulk_add_data call, or two
\* add_data_to_excel calls
ConsecutiveWrites ==
  \/ /\ RecordStep
     /\ cur.outcome = "written" /\ cur'.outcome = "written"
  \/ /\ pc = "add_done" /\ result.ok
     /\ pc' = "add_done" /\ used' = used + 1 /\ result'.ok

\* C24: a record reported as successful is never written to the row of the
\* successful record written before it on the same sheet.
C24_NoSharedRow ==
  [][ (ConsecutiveWrites /\ cur'.target_sheet = cur.target_sheet) =>
         cur'.target_row # cur.target_row ]_vars

\* the <<sheet, row>> pairs written for the successful records among
\* records[k..], processed in order from the workbook bk
RECURSIVE SuccessRows(_, _, _)
SuccessRows(bk, records, k) ==
  IF k > Len(records) THEN {}
  ELSE LET p == ProcessRecord(bk, records[k])
       IN (IF p.outcome = "written"
             THEN {<< p.target_sheet, p.target_row >>} ELSE {})
          \cup SuccessRows(p.book, records, k + 1)

\* the cells <<sheet, row, column>> in which the workbook after differs
\* from the workbook before
ChangedCells(before, after) ==
  { x \in UNION { UNION { { << s, r, c >> : c \in 1..Len(after[s][r]) }
                           : r \in 1..Len(after[s]) } : s \in DOMAIN after } :
      CellValue(after[x[1]], x[2], x[3]) # CellValue(before[x[1]], x[2], x[3]) }

\* C25: every cell in which the workbook saved at the end of bulk_add_data
\* differs from the workbook before the call is in a row written for a
\* record counted as a success.
C25_FailureLeavesNoTrace ==
  [][ (pc = "loop" /\ pc' = "bulk_done") =>
        \A x \in ChangedCells(stored, stored') :
           << x[1], x[2] >> \in SuccessRows(stored, data_list, 1) ]_vars

\* a step in which a writer writes a row successfully
WriteStep ==
  \/ RecordStep /\ cur'.outcome = "written"
  \/ pc' = "add_done" /\ used' = used + 1 /\ result'.ok

\* C26: a successful write changes only cells of the target row in the
\* columns 1..W (W the number of values written): the other sheets, the
\* other rows of the sheet and the cells right of W keep their values, and
\* every cell of the target row in 1..W was None or blank after trim.
C26_WriteFrame ==
  [][ WriteStep =>
        LET before == IF pc = "loop" THEN book ELSE stored
            after == book'
            sheet == cur'.target_sheet
            row == cur'.target_row
            W == Len(cur'.row_data)
        IN /\ DOMAIN after = DOMAIN before
           /\ \A s \in DOMAIN before \ {sheet} : after[s] = before[s]
           /\ Len(after[sheet]) \in {Len(before[sheet]), row}
           /\ \A r \in 1..Len(after[sheet]) :
                 \A c \in 1..Len(after[sheet][r]) :
                    (r # row \/ c > W) =>
                      CellValue(after[sheet], r, c) = CellValue(before[sheet], r, c)
           /\ \A c \in 1..W :
                 /\ BlankCell(CellValue(before[sheet], row, c))
                 /\ CellValue(after[sheet], row, c) = cur'.row_data[c] ]_vars

\* C26 witness: a record was written over a row of whitespace cells, in a
\* sheet with full rows around it
C26_Witness ==
  /\ Wrote
  /\ cur.target_row = 4
  /\ CellValue(cur.ws_before, 4, 3) = Str(<<"sp", "f_sp">>)
  /\ CellValue(WrittenSheet, 4, 3) = cur.row_data[3]
  /\ CellValue(WrittenSheet, 5, 3) = Str(<<"lat_x">>)

\* the text of a keyword with the ".*" of its pattern left out: the
\* shortest text the keyword is found in
PlainToken(x) == x \notin {".", "*"}
KeywordText(c, q) == Str(SelectSeq(category_keywords[c].keywords[q], PlainToken))
KeywordTexts ==
  UNION { { KeywordText(c, q) : q \in 1..Len(category_keywords[c].keywords) }
          : c \in 1..Len(category_keywords) }

\* the categories some title (the text of a keyword, alone or as the hint
\* of a title without keywords) is assigned to
ReachedCategories ==
  { classify_product_category(t, EmptyDict) : t \in KeywordTexts \cup ClassifyTitles }
  \cup { classify_product_category(Str(<<"lat_x">>), "mono" :> t) : t \in KeywordTexts }

\* C27: every one of the sixteen categories is the classifier's answer for
\* some title: the text of one of its keywords, or the title and hint of
\* the call that was made.
C27_AllCategoriesReachable ==
  \A s \in SheetNames : s \in ReachedCategories \cup {classified.result}

\* C28: for the categories with a measurement text, the text holds the
\* fragment of a selected column exactly when the mapped row holds a
\* non-empty value for that column, and with that value, also when the
\* record gives the measurement under an English alias.
C28_TextAgreesWithRow ==
  measured.sheet_name \in {"toppusu", "pantsu", "sukaato"} =>
    LET mapped == map_data_to_sheet_headers(measured.data, measured.sheet_name)
        fields == MeasurementFields(measured.sheet_name)
    IN \A f \in 1..Len(fields) :
          LET v == Get(mapped, fields[f][1], None)
          IN /\ Contains(measured.result, fields[f][2] \o <<"f_colon">>)
                  <=> NonEmpty(v)
             /\ NonEmpty(v) =>
                  Contains(measured.result, Fragment(fields[f][2], v))

\* add_data_to_excel called on records[k..] in order, from the stored
\* workbook bk, with storage that does not fail: the stored workbook at
\* the end and the numbers of calls that returned True and False
RECURSIVE SinglesFrom(_, _, _)
SinglesFrom(bk, records, k) ==
  IF k > Len(records) THEN [book |-> bk, successful |-> 0, failed |-> 0]
  ELSE LET p == ProcessRecord(bk, records[k])
           rest == SinglesFrom(IF p.outcome = "written" THEN Saved(p.book) ELSE bk,
                               records, k + 1)
       IN [book |-> rest.book,
           successful |-> rest.successful + (IF p.outcome = "written" THEN 1 ELSE 0),
           failed |-> rest.failed + (IF p.outcome = "written" THEN 0 ELSE 1)]

\* C29: when storage does not fail, bulk_add_data(list) leaves the stored
\* workbook and the counts of successes and failures that calling
\* add_data_to_excel on each record of the list in order leaves.
C29_BulkEqualsSingles ==
  [][ (pc = "loop" /\ pc' = "bulk_done" /\ ~StorageFailed') =>
        /\ stored' = SinglesFrom(stored, data_list, 1).book
        /\ success_count' = SinglesFrom(stored, data_list, 1).successful
        /\ failure_count' = SinglesFrom(stored, data_list, 1).failed ]_vars

\* a call of add_data_to_excel
AddStep == pc' = "add_done" /\ used' = used + 1

\* C30: add_data_to_excel returns (False, message) and leaves the stored
\* workbook as it was when the file is missing, the title is missing, the
\* mapping is empty, the sheet is absent or a step before the save raises;
\* it returns (True, message) only when the record was written and saved.
C30_AddNeverRaises ==
  [][ AddStep =>
        /\ result'.ok \in BOOLEAN /\ result'.msg # "none"
        /\ (result'.msg = "file_not_found"
              \/ cur'.outcome \in {"title_required", "classify_raised",
                                   "map_failed", "open_raised",
                                   "sheet_not_found", "write_raised"}) =>
              (~result'.ok /\ stored' = stored)
        /\ (cur'.outcome # "none" /\ NoTitle(cur'.data)) =>
              (~result'.ok /\ result'.msg = "title_required")
        /\ result'.ok =>
              /\ cur'.outcome = "written"
              /\ stored' = Saved(book')
              /\ \A c \in 1..Len(cur'.row_data) :
                    CellValue(stored'[cur'.target_sheet], cur'.target_row, c)
                      = SavedCell(cur'.row_data[c]) ]_vars

\* C30 witness: a cell write raised after the workbook was loaded; the call
\* returned False and the stored workbook has none of the cells written
\* into the loaded one
C30_Witness ==
  /\ pc = "add_done" /\ ~result.ok
  /\ cur.outcome = "write_raised"
  /\ book # NoBook
  /\ Saved(book) # stored

====
